---- MODULE Spec2Model ----
(***************************************************************************)
(* Reviewer batch assignment (BatchReviewerAssignment), the user cache it  *)
(* feeds (UserCacheManager) and the batch loop of the create command.      *)
(*                                                                         *)
(* Strings the code computes on (paths, extensions, directory names) are   *)
(* sequences of one-character strings.  Messages the code only passes on   *)
(* are TLA+ strings, written as ASCII glosses of the Chinese literals.     *)
(* Timestamps are counted in days instead of milliseconds.                 *)
(***************************************************************************)
EXTENDS Integers, Sequences, FiniteSets, TLC

VARIABLES
  pc,                \* position of the batch loop / of the engine call
  flow,              \* "component" | "function" | "direct" (engine called directly)
  selectedFiles,     \* the suggestions handed to the engine
  userChoices,       \* the reviewer choice list
  batchOptions,      \* BatchAssignmentOptions in force
  results,           \* executeBatchAssignment's local results array
  assignmentResults, \* the caller's assignmentResults
  finalResults,      \* the caller's finalResults (returned by adjust)
  modules,           \* the caller's components / functions array
  cacheFile,         \* ~/.fshows/user-cache.json
  writable,          \* whether ensureDir / writeJson succeed
  now,               \* Date.now(), in days
  retries,           \* rounds restarted by a retry disposition
  prompts,           \* history: inquirer prompts issued by the batch workflow
  writes,            \* history: fs.writeJson calls that succeeded
  prefCalls,         \* history: updateFileReviewerPreference calls of the running engine call
  fileAtExecute,     \* history: the cache file when execute was entered
  offered,           \* history: per extension, the list prompt configureTypeBasedAssignment issued
  loopLog,           \* history: the cache file when the loop was entered, the results of each executed round
  call,              \* the last call made to the UserCacheManager and its outcome
  fileBefore,        \* history: the cache file before that call
  recorded,          \* history: the ids passed to the usage calls, oldest first
  procs,             \* two processes inside updateFileReviewerPreference
  diffFiles,         \* the changed files handed to analyzeDiffForModules
  classified,        \* what analyzeDiffForModules returned
  http               \* the GreatWallApiClient: its config and the request under way

\* the state of the cache manager calls made outside the batch loop
storeVars == <<call, fileBefore, recorded, procs>>
\* the state of the diff analysis
gitVars == <<diffFiles, classified>>
\* what the batch loop never touches
otherVars == <<storeVars, gitVars, http>>

vars == <<pc, flow, selectedFiles, userChoices, batchOptions, results,
          assignmentResults, finalResults, modules, cacheFile, writable, now,
          retries, prompts, writes, prefCalls, fileAtExecute, offered, loopLog,
          otherVars>>

(***************************************************************************)
(* Bounds                                                                  *)
(***************************************************************************)
MaxFiles == 2
MaxRetries == 1
MaxReviewerId == 1
\* ids recorded beyond the 20 a recency list keeps
MaxExtraIds == 5
\* ids recorded a second time in one run
MaxRerecords == 1
\* calls made to the cache manager in one run of the store
MaxCalls == 3

(***************************************************************************)
(* Strings                                                                 *)
(***************************************************************************)
UpperChars == <<"A","B","C","D","E","F","G","H","I","J","K","L","M",
                "N","O","P","Q","R","S","T","U","V","W","X","Y","Z">>
LowerChars == <<"a","b","c","d","e","f","g","h","i","j","k","l","m",
                "n","o","p","q","r","s","t","u","v","w","x","y","z">>

\* the lower-case letter of an upper-case one, any other character as it is
toLowerCaseChar(c) ==
  LET hits == {k \in 1..26 : UpperChars[k] = c}
  IN IF hits = {} THEN c ELSE LowerChars[CHOOSE k \in hits : TRUE]

\* String.prototype.toLowerCase
toLowerCase(s) == [k \in 1..Len(s) |-> toLowerCaseChar(s[k])]

SetMax(S) == CHOOSE m \in S : \A n \in S : n <= m
SetMin(S) == CHOOSE m \in S : \A n \in S : m <= n

\* String.prototype.split('/'): empty segments are kept
RECURSIVE splitSlash(_)
splitSlash(s) ==
  LET slashes == {k \in 1..Len(s) : s[k] = "/"}
  IN IF slashes = {} THEN <<s>>
     ELSE LET k == SetMin(slashes)
          IN <<SubSeq(s, 1, k - 1)>> \o splitSlash(SubSeq(s, k + 1, Len(s)))

\* Array.prototype.filter(part => part.length > 0)
nonEmptyParts(parts) == SelectSeq(parts, LAMBDA part : Len(part) > 0)

\* path.basename (posix) of a path without trailing slash
basename(p) ==
  LET parts == nonEmptyParts(splitSlash(p))
  IN IF parts = <<>> THEN <<>> ELSE parts[Len(parts)]

\* path.extname (posix): from the last dot of the basename, '' when there is
\* no dot, when the only dot is the first character, or for '..'
extname(p) ==
  LET b == basename(p)
      dots == {k \in 1..Len(b) : b[k] = "."}
  IN IF dots = {} THEN <<>>
     ELSE LET d == SetMax(dots)
          IN IF d = 1 \/ b = <<".", ".">> THEN <<>> ELSE SubSeq(b, d, Len(b))

\* replace(/\.[^/.]+$/, '') on a path segment
stripExtension(b) ==
  LET dots == {k \in 1..Len(b) : b[k] = "."}
  IN IF dots = {} THEN b
     ELSE LET d == SetMax(dots)
          IN IF d < Len(b) THEN SubSeq(b, 1, d - 1) ELSE b

\* Number.prototype.toString for the small ids of the model
toString(n) == <<"0","1","2","3","4","5","6","7","8","9">>[n + 1]

OtherExt == <<".","o","t","h","e","r">>
IndexName == <<"i","n","d","e","x">>

(***************************************************************************)
(* UserCacheManager (src/src/utils/cache.ts)                               *)
(***************************************************************************)
CACHE_EXPIRY_DAYS == 30

EmptyMap == [k \in {} |-> 0]

\* getDefaultCache; a record without fileReviewerPreferences reads as an
\* empty map everywhere the field is used
getDefaultCache(t) ==
  [recentParticipants |-> <<>>, recentCheckUsers |-> <<>>,
   fileReviewerPreferences |-> EmptyMap, lastUpdated |-> t]

NoFile == [exists |-> FALSE, parsable |-> FALSE, data |-> getDefaultCache(0)]

\* a loadCache without the expiry test
loadCache_noExpiry(file, t) ==
  IF file.exists /\ file.parsable THEN file.data ELSE getDefaultCache(t)

\* a loadCache that takes every file for an expired one
loadCache_expired(file, t) ==
  getDefaultCache(t)

\* loadCache: the record the caller gets
loadCache(file, t) ==
  IF file.exists /\ file.parsable
  THEN LET cacheAge == t - file.data.lastUpdated
           maxAge == CACHE_EXPIRY_DAYS
       IN IF cacheAge > maxAge THEN getDefaultCache(t) ELSE file.data
  ELSE getDefaultCache(t)

\* saveCache: the file after the call (a failed write is swallowed)
saveCache(file, cache, t, canWrite) ==
  IF canWrite
  THEN [exists |-> TRUE, parsable |-> TRUE, data |-> [cache EXCEPT !.lastUpdated = t]]
  ELSE file

\* preferences[extension][reviewerId] || 0
weightOf(preferences, extension, reviewerId) ==
  IF extension \in DOMAIN preferences /\ reviewerId \in DOMAIN preferences[extension]
  THEN preferences[extension][reviewerId]
  ELSE 0

\* addWeight that starts every count over: preferences[extension] = {[reviewerId]: 1}
addWeight_reset(preferences, extension, reviewerId) ==
  (extension :> (reviewerId :> 1)) @@ preferences

\* addWeight that forgets the other reviewers of the extension
addWeight_alone(preferences, extension, reviewerId) ==
  (extension :> (reviewerId :> (weightOf(preferences, extension, reviewerId) + 1)))
    @@ preferences

\* preferences[extension][reviewerId] = (preferences[extension][reviewerId] || 0) + 1
addWeight(preferences, extension, reviewerId) ==
  LET old == IF extension \in DOMAIN preferences THEN preferences[extension] ELSE EmptyMap
      new == (reviewerId :> (weightOf(preferences, extension, reviewerId) + 1)) @@ old
  IN (extension :> new) @@ preferences

\* updateFileReviewerPreference: [file |-> the file after the call,
\*                                wrote |-> 1 when writeJson was called]
updateFileReviewerPreference(file, filePath, reviewerId, t, canWrite) ==
  LET cache == loadCache(file, t)
      extension == toLowerCase(extname(filePath))
  IN IF extension = <<>>
     THEN [file |-> file, wrote |-> 0]
     ELSE LET updated == [cache EXCEPT !.fileReviewerPreferences =
                            addWeight(cache.fileReviewerPreferences, extension, reviewerId)]
          IN [file |-> saveCache(file, updated, t, canWrite),
              wrote |-> IF canWrite THEN 1 ELSE 0]

\* the entries the recency lists keep: slice(0, 20)
RECENT_LIMIT == 20

\* Array.prototype.includes
includes(list, id) == \E k \in 1..Len(list) : list[k] = id

\* previous.forEach(id => { if (!recent.includes(id)) recent.push(id) })
RECURSIVE mergeRecent(_, _)
mergeRecent(recent, previous) ==
  IF previous = <<>> THEN recent
  ELSE mergeRecent(IF includes(recent, Head(previous)) THEN recent
                   ELSE Append(recent, Head(previous)),
                   Tail(previous))

\* a slice that keeps the end of the list: slice(-20)
sliceRecent_tail(list) ==
  IF Len(list) <= RECENT_LIMIT THEN list
  ELSE SubSeq(list, Len(list) - RECENT_LIMIT + 1, Len(list))

\* slice(0, 20)
sliceRecent(list) ==
  IF Len(list) <= RECENT_LIMIT THEN list ELSE SubSeq(list, 1, RECENT_LIMIT)

\* updateParticipantUsage: [file |-> the file after the call,
\*                          raised |-> whether the call threw]
\* forEach on a record without the list is a TypeError outside any try
updateParticipantUsage(file, userIds, t, canWrite) ==
  LET cache == loadCache(file, t)
  IN IF "recentParticipants" \notin DOMAIN cache
     THEN [file |-> file, raised |-> TRUE]
     ELSE LET recentParticipants == mergeRecent(userIds, cache.recentParticipants)
              updated == [cache EXCEPT !.recentParticipants = sliceRecent(recentParticipants)]
          IN [file |-> saveCache(file, updated, t, canWrite), raised |-> FALSE]

\* updateCheckUserUsage: the same over recentCheckUsers
updateCheckUserUsage(file, userIds, t, canWrite) ==
  LET cache == loadCache(file, t)
  IN IF "recentCheckUsers" \notin DOMAIN cache
     THEN [file |-> file, raised |-> TRUE]
     ELSE LET recentCheckUsers == mergeRecent(userIds, cache.recentCheckUsers)
              updated == [cache EXCEPT !.recentCheckUsers = sliceRecent(recentCheckUsers)]
          IN [file |-> saveCache(file, updated, t, canWrite), raised |-> FALSE]

\* JS undefined where a number is expected, and JS null
Undefined == -1
Null == -2

\* user.id of an entry of availableUsers: undefined when it has no such field
idOf(user) == IF "id" \in DOMAIN user THEN user.id ELSE Undefined

\* the entries in descending id order among equal weights
sortedReviewers_largestIdFirst(fileTypePrefs) ==
  LET ids == DOMAIN fileTypePrefs
      before(q, r) == \/ fileTypePrefs[q] > fileTypePrefs[r]
                      \/ (fileTypePrefs[q] = fileTypePrefs[r] /\ q > r)
  IN [p \in 1..Cardinality(ids) |->
        CHOOSE r \in ids : Cardinality({q \in ids : before(q, r)}) = p - 1]

\* Object.entries(fileTypePrefs).sort(([, a], [, b]) => b - a), the ids only:
\* the keys are integer-like, so entries come in ascending id order, and the
\* stable sort keeps that order among equal weights
RECURSIVE sortedReviewers(_)
sortedReviewers(fileTypePrefs) ==
  IF DOMAIN fileTypePrefs = {} THEN <<>>
  ELSE LET ids == DOMAIN fileTypePrefs
           best == CHOOSE r \in ids :
                     \A q \in ids : \/ fileTypePrefs[q] < fileTypePrefs[r]
                                    \/ (fileTypePrefs[q] = fileTypePrefs[r] /\ r <= q)
       IN <<best>> \o sortedReviewers([q \in ids \ {best} |-> fileTypePrefs[q]])

\* an availability test that accepts every reviewer
isAvailable_always(availableUsers, userId) == TRUE

\* availableUsers.some(user => user.id === userId)
isAvailable(availableUsers, userId) ==
  \E k \in 1..Len(availableUsers) : idOf(availableUsers[k]) = userId

\* getRecommendedReviewerForFile: the first reviewer of the sorted entries
\* that is among availableUsers, null when there is none
getRecommendedReviewerForFile(file, filePath, availableUsers, t) ==
  LET cache == loadCache(file, t)
      extension == toLowerCase(extname(filePath))
      preferences == cache.fileReviewerPreferences
  IN IF extension \notin DOMAIN preferences THEN Null
     ELSE LET sorted == sortedReviewers(preferences[extension])
              hits == {k \in 1..Len(sorted) : isAvailable(availableUsers, sorted[k])}
          IN IF hits = {} THEN Null ELSE sorted[SetMin(hits)]

\* getCacheStats: [raised, returned]; .length of a missing list is a
\* TypeError outside any try
getCacheStats(file, t) ==
  LET cache == loadCache(file, t)
  IN IF "recentParticipants" \notin DOMAIN cache \/ "recentCheckUsers" \notin DOMAIN cache
     THEN [raised |-> TRUE, returned |-> Null]
     ELSE [raised |-> FALSE,
           returned |-> [participantCount |-> Len(cache.recentParticipants),
                         checkUserCount |-> Len(cache.recentCheckUsers),
                         lastUpdated |-> cache.lastUpdated,
                         hasFilePreferences |-> DOMAIN cache.fileReviewerPreferences # {}]]

(***************************************************************************)
(* BatchReviewerAssignment (src/unnamed/part_004)                          *)
(***************************************************************************)
meaningfulDirs ==
  { <<"c","o","m","p","o","n","e","n","t","s">>, <<"p","a","g","e","s">>,
    <<"v","i","e","w","s">>, <<"u","t","i","l","s">>,
    <<"s","e","r","v","i","c","e","s">>, <<"a","p","i">>,
    <<"s","t","o","r","e">>, <<"f","e","a","t","u","r","e","s">>,
    <<"m","o","d","u","l","e","s">> }

RootDir == <<"r","o","o","t">>

getMainDirectory(filePath) ==
  LET parts == nonEmptyParts(splitSlash(filePath))
      hits == {k \in 1..Len(parts) : toLowerCase(parts[k]) \in meaningfulDirs}
  IN IF hits # {} THEN parts[SetMin(hits)]
     ELSE IF Len(parts) > 1 THEN parts[1] ELSE RootDir

\* the extension key of executeBatchAssignment and analyzeFileTypes
extensionKey(filePath) ==
  LET e == toLowerCase(extname(filePath))
  IN IF e = <<>> THEN OtherExt ELSE e

\* a JS number is falsy exactly when it is 0; undefined (no entry) is falsy
truthyEntry(mapping, key) == key \in DOMAIN mapping /\ mapping[key] # 0

\* options.typeBasedMapping[extension] || options.typeBasedMapping['.other']
\*   || userChoices[0].value
byTypeReviewer(mapping, extension, choices) ==
  IF truthyEntry(mapping, extension) THEN mapping[extension]
  ELSE IF truthyEntry(mapping, OtherExt) THEN mapping[OtherExt]
  ELSE choices[1].value

\* options.directoryBasedMapping[directory] || userChoices[0].value
byDirectoryReviewer(mapping, directory, choices) ==
  IF truthyEntry(mapping, directory) THEN mapping[directory]
  ELSE choices[1].value

\* the switch of executeBatchAssignment for one file
assignOne(file, options, choices) ==
  CASE options.mode = "single" ->
         [reviewerId |-> options.defaultReviewer,
          assignmentReason |-> <<"unified assignment">>]
    [] options.mode = "byType" ->
         [reviewerId |-> byTypeReviewer(options.typeBasedMapping,
                                        extensionKey(file.relativePath), choices),
          assignmentReason |-> <<"file type: ", extensionKey(file.relativePath)>>]
    [] options.mode = "byDirectory" ->
         [reviewerId |-> byDirectoryReviewer(options.directoryBasedMapping,
                                             getMainDirectory(file.relativePath), choices),
          assignmentReason |-> <<"directory: ", getMainDirectory(file.relativePath)>>]
    [] OTHER ->
         [reviewerId |-> choices[1].value,
          assignmentReason |-> <<"default assignment">>]

\* userChoices.find(choice => choice.value === reviewerId), then short
reviewerNameOf(reviewerId, choices) ==
  IF \E k \in 1..Len(choices) : choices[k].value = reviewerId
  THEN choices[SetMin({k \in 1..Len(choices) : choices[k].value = reviewerId})].short
  ELSE "unknown"

\* resultFor with filePath taken from the suggestion's name
resultFor_namePath(file, options, choices) ==
  LET a == assignOne(file, options, choices)
  IN [filePath |-> file.name,
      fileName |-> file.name,
      reviewerId |-> a.reviewerId,
      reviewerName |-> reviewerNameOf(a.reviewerId, choices),
      assignmentReason |-> a.assignmentReason]

\* the AssignmentResult pushed for one file
resultFor(file, options, choices) ==
  LET a == assignOne(file, options, choices)
  IN [filePath |-> file.relativePath,
      fileName |-> file.name,
      reviewerId |-> a.reviewerId,
      reviewerName |-> reviewerNameOf(a.reviewerId, choices),
      assignmentReason |-> a.assignmentReason]


\* groupedByReviewer of showAssignmentPreview: the results under each name
groupedByReviewer(rs) ==
  [n \in {rs[k].reviewerName : k \in 1..Len(rs)} |->
     SelectSeq(rs, LAMBDA r : r.reviewerName = n)]

\* a preview that regroups the array in place: results.reverse()
resultsAfterPreview_reversed(rs) == [k \in 1..Len(rs) |-> rs[Len(rs) + 1 - k]]

\* the results array after showAssignmentPreview: reduce and forEach read it only
resultsAfterPreview(rs) == rs

\* adjustedResults[index] = {...result, reviewerId, reviewerName, assignmentReason}
adjustOne(result, newReviewer, choices) ==
  [result EXCEPT !.reviewerId = newReviewer,
                 !.reviewerName = reviewerNameOf(newReviewer, choices),
                 !.assignmentReason = <<"manual adjustment">>]

\* adjustedResults after the loop over filesToAdjust (a set of indices, the
\* checkbox answers) with the reviewer picked for each
adjustedResults(rs, filesToAdjust, newReviewer, choices) ==
  [k \in 1..Len(rs) |->
     IF k \in filesToAdjust THEN adjustOne(rs[k], newReviewer[k], choices) ELSE rs[k]]

\* an adjust loop that writes into results itself (adjustedResults = results)
resultsAfterAdjust_inPlace(rs, filesToAdjust, newReviewer, choices) ==
  adjustedResults(rs, filesToAdjust, newReviewer, choices)

\* the results array passed to adjustIndividualAssignments, after the call:
\* the loop writes into the copy [...results] only
resultsAfterAdjust(rs, filesToAdjust, newReviewer, choices) == rs

\* the updateFileReviewerPreference calls of the adjust loop, in index order
RECURSIVE adjustCalls(_, _, _, _)
adjustCalls(rs, filesToAdjust, newReviewer, from) ==
  IF from > Len(rs) THEN <<>>
  ELSE (IF from \in filesToAdjust
        THEN <<[filePath |-> rs[from].filePath, reviewerId |-> newReviewer[from]]>>
        ELSE <<>>)
       \o adjustCalls(rs, filesToAdjust, newReviewer, from + 1)

\* a sequence of updateFileReviewerPreference calls applied to the file
RECURSIVE applyCalls(_, _, _, _)
applyCalls(file, calls, t, canWrite) ==
  IF calls = <<>> THEN [file |-> file, wrote |-> 0]
  ELSE LET u == updateFileReviewerPreference(file, calls[1].filePath,
                                             calls[1].reviewerId, t, canWrite)
           rest == applyCalls(u.file, Tail(calls), t, canWrite)
       IN [file |-> rest.file, wrote |-> u.wrote + rest.wrote]

\* analyzeFileTypes / analyzeDirectories: the keys of the groups
analyzeFileTypes(files) == {extensionKey(files[k].relativePath) : k \in 1..Len(files)}
analyzeDirectories(files) == {getMainDirectory(files[k].relativePath) : k \in 1..Len(files)}

\* getRecommendedReviewerForType: the recommendation for `temp${extension}`
getRecommendedReviewerForType(file, extension, choices, t) ==
  getRecommendedReviewerForFile(file, <<"t","e","m","p">> \o extension, choices, t)

\* the choices of one list prompt of configureTypeBasedAssignment: a truthy
\* recommendation found among the choice values is moved to the front
promptChoices(choices, recommendedReviewer) ==
  LET hits == {k \in 1..Len(choices) : choices[k].value = recommendedReviewer}
  IN IF recommendedReviewer # Null /\ recommendedReviewer # 0 /\ hits # {}
     THEN LET index == SetMin(hits)
          IN <<choices[index]>> \o SubSeq(choices, 1, index - 1)
                               \o SubSeq(choices, index + 1, Len(choices))
     ELSE choices

\* the list prompt issued for one extension group
typePrompt(file, extension, choices, t) ==
  LET recommendedReviewer == getRecommendedReviewerForType(file, extension, choices, t)
  IN [choices |-> promptChoices(choices, recommendedReviewer),
      default |-> recommendedReviewer]

(***************************************************************************)
(* The batch loop of collectComponentModules / collectFunctionModules      *)
(* (src/src/commands/create.ts)                                            *)
(***************************************************************************)
\* the module name both flows derive from a path
moduleName(filePath) ==
  LET pathParts == splitSlash(filePath)
      n == stripExtension(pathParts[Len(pathParts)])
  IN IF toLowerCase(n) = IndexName
     THEN IF Len(pathParts) >= 2 /\ pathParts[Len(pathParts) - 1] # <<>>
          THEN pathParts[Len(pathParts) - 1] ELSE IndexName
     ELSE n

\* components.push({...}) / functions.push({...}) for one file
toModule(fl, filePath, reviewerId) ==
  IF fl = "component"
  THEN [name |-> moduleName(filePath), relativePath |-> filePath,
        checkUser |-> toString(reviewerId), url |-> <<>>]
  ELSE [name |-> moduleName(filePath), relativePath |-> filePath,
        checkUser |-> toString(reviewerId), description |-> filePath]

\* a conversion that stops after the first result
modulesOfResults_firstOnly(fl, rs) ==
  [k \in 1..(IF Len(rs) > 1 THEN 1 ELSE Len(rs)) |->
     toModule(fl, rs[k].filePath, rs[k].reviewerId)]

\* finalResults.forEach(result => modules.push(...))
modulesOfResults(fl, rs) ==
  [k \in 1..Len(rs) |-> toModule(fl, rs[k].filePath, rs[k].reviewerId)]

\* a retry branch that keeps the round's results
modulesAfterRetry_kept(ms, rs) == ms \o rs

\* what the retry branch leaves in the modules array: it only logs
modulesAfterRetry(ms, rs) == ms

\* a loop that would resume at the configuration of the mode chosen before
loopHead_configuration == "StrategyConfiguration"

\* where the while loop resumes after a retry: at collectBatchAssignmentMode
loopHead == "ModeSelection"

\* what the cancel branch returns: the modules array as it is
modulesAfterCancel(ms, rs) == ms

(***************************************************************************)
(* Inputs                                                                  *)
(***************************************************************************)
Users == 0..MaxReviewerId
UserNames == <<"ann", "bob", "cat", "dan", "eve", "fay">>

Choice(id) == [value |-> id, short |-> UserNames[id + 1]]
\* new inquirer.Separator(...): an entry without value
Separator == [value |-> Undefined, short |-> ""]

AllChoices == [k \in 1..(MaxReviewerId + 1) |-> Choice(k - 1)]

\* choice lists as generateSmartUserChoices builds them: distinct users, a
\* separator only between two non-empty groups
UserChoiceLists ==
  { <<Choice(1), Separator>> \o SelectSeq(AllChoices, LAMBDA c : c.value # 1),
    <<Choice(MaxReviewerId)>> }

\* the values a list prompt over the choices can answer
choiceValues(choices) ==
  {choices[k].value : k \in {j \in 1..Len(choices) : choices[j] # Separator}}

\* suggestion names: path.basename(path, path.extname(path))
suggestionName(filePath) ==
  LET b == basename(filePath)
  IN SubSeq(b, 1, Len(b) - Len(extname(filePath)))

Suggestion(filePath) == [name |-> suggestionName(filePath), relativePath |-> filePath]

\* w/api/a.ts, w/lib/b.TS, w/lib/c: function files (/api/, /lib/)
FunctionPool ==
  << Suggestion(<<"w","/","a","p","i","/","a",".","t","s">>),
     Suggestion(<<"w","/","l","i","b","/","b",".","T","S">>),
     Suggestion(<<"w","/","l","i","b","/","c">>) >>
\* Api/ui/d.tsx, E.tsx: component files (/ui/, PascalCase .tsx)
ComponentPool ==
  << Suggestion(<<"A","p","i","/","u","i","/","d",".","t","s","x">>),
     Suggestion(<<"E",".","t","s","x">>) >>
\* the files a direct caller of the engine may pass
DirectPool == FunctionPool \o ComponentPool

\* the answers of a checkbox prompt over the pool: its entries in pool order
RECURSIVE pick(_, _, _)
pick(pool, S, from) ==
  IF from > Len(pool) THEN <<>>
  ELSE (IF from \in S THEN <<pool[from]>> ELSE <<>>) \o pick(pool, S, from + 1)

Selections(pool, least) ==
  {pick(pool, S, 1) : S \in {T \in SUBSET (1..Len(pool)) :
                               Cardinality(T) >= least /\ Cardinality(T) <= MaxFiles}}

PriorPreferences ==
  (<<".","t","s">> :> (1 :> 2))

\* the cache file at start: absent, unparsable, and written 30 and 31 days ago
CacheFiles(t) ==
  { NoFile,
    [exists |-> TRUE, parsable |-> FALSE, data |-> getDefaultCache(0)],
    [exists |-> TRUE, parsable |-> TRUE,
     data |-> [getDefaultCache(t - CACHE_EXPIRY_DAYS) EXCEPT
                 !.fileReviewerPreferences = PriorPreferences]],
    [exists |-> TRUE, parsable |-> TRUE,
     data |-> [getDefaultCache(t - CACHE_EXPIRY_DAYS - 1) EXCEPT
                 !.fileReviewerPreferences = PriorPreferences]] }

NoOptions ==
  [mode |-> "none", defaultReviewer |-> Undefined,
   typeBasedMapping |-> EmptyMap, directoryBasedMapping |-> EmptyMap]

PartialMaps(K, V) == UNION {[D -> V] : D \in SUBSET K}

\* options a direct caller of executeBatchAssignment may pass for the files
DirectOptions(files) ==
  {[NoOptions EXCEPT !.mode = "single", !.defaultReviewer = r] : r \in Users}
  \cup {[NoOptions EXCEPT !.mode = "byType", !.typeBasedMapping = m] :
          m \in PartialMaps(analyzeFileTypes(files) \cup {OtherExt}, Users)}
  \cup {[NoOptions EXCEPT !.mode = "byDirectory", !.directoryBasedMapping = m] :
          m \in PartialMaps(analyzeDirectories(files), Users)}
  \cup {[NoOptions EXCEPT !.mode = "individual"]}

(***************************************************************************)
(* GitUtils.analyzeDiffForModules (src/unnamed/part_003)                   *)
(***************************************************************************)
Digits == {"0","1","2","3","4","5","6","7","8","9"}
UpperSet == {UpperChars[k] : k \in 1..26}
LowerSet == {LowerChars[k] : k \in 1..26}

\* String.prototype.toUpperCase on one character
toUpperCaseChar(c) ==
  LET hits == {k \in 1..26 : LowerChars[k] = c}
  IN IF hits = {} THEN c ELSE UpperChars[CHOOSE k \in hits : TRUE]

\* String.prototype.includes
contains(s, fragment) ==
  \E k \in 1..(Len(s) - Len(fragment) + 1) :
    SubSeq(s, k, k + Len(fragment) - 1) = fragment

\* String.prototype.endsWith
endsWith(s, suffix) ==
  Len(s) >= Len(suffix) /\ SubSeq(s, Len(s) - Len(suffix) + 1, Len(s)) = suffix

styleExtensions ==
  { <<".","c","s","s">>, <<".","s","c","s","s">>, <<".","s","a","s","s">>,
    <<".","l","e","s","s">>, <<".","s","t","y","l">>, <<".","s","t","y","l","u","s">> }

\* a style test that compares the path as it is written
isStyleFile_caseSensitive(filePath) ==
  \E ext \in styleExtensions : endsWith(filePath, ext)

\* styleExtensions.some(ext => filePath.toLowerCase().endsWith(ext))
isStyleFile(filePath) ==
  \E ext \in styleExtensions : endsWith(toLowerCase(filePath), ext)

componentPaths ==
  { <<"/","c","o","m","p","o","n","e","n","t","s","/">>, <<"/","w","i","d","g","e","t","s","/">>,
    <<"/","u","i","/">>, <<"/","c","o","m","p","o","n","e","n","t","/">> }

componentExtensions ==
  { <<".","v","u","e">>, <<".","j","s","x">>, <<".","t","s","x">>, <<".","s","v","e","l","t","e">> }

\* /[A-Z][a-zA-Z0-9]*\.(vue|jsx|tsx|svelte)$/.test(basename): the match may
\* start at any upper-case letter of the basename
isPascalCase(b) ==
  \E i \in 1..Len(b) : \E j \in (i + 1)..Len(b) :
    /\ b[i] \in UpperSet
    /\ \A k \in (i + 1)..(j - 1) : b[k] \in UpperSet \cup LowerSet \cup Digits
    /\ b[j] = "."
    /\ SubSeq(b, j + 1, Len(b)) \in {Tail(ext) : ext \in componentExtensions}

isComponentFile(filePath) ==
  IF isStyleFile(filePath) THEN FALSE
  ELSE LET hasComponentPath == \E p \in componentPaths : contains(filePath, p)
           hasComponentExt == \E ext \in componentExtensions : endsWith(filePath, ext)
       IN hasComponentPath \/ (hasComponentExt /\ isPascalCase(basename(filePath)))

functionPaths ==
  { <<"/","p","a","g","e","s","/">>, <<"/","v","i","e","w","s","/">>, <<"/","r","o","u","t","e","s","/">>, <<"/","r","o","u","t","e","r","/">>,
    <<"/","f","e","a","t","u","r","e","s","/">>, <<"/","m","o","d","u","l","e","s","/">>, <<"/","d","o","m","a","i","n","s","/">>,
    <<"/","s","e","r","v","i","c","e","s","/">>, <<"/","a","p","i","/">>, <<"/","u","t","i","l","s","/">>, <<"/","h","e","l","p","e","r","s","/">>,
    <<"/","s","t","o","r","e","/">>, <<"/","s","t","o","r","e","s","/">>, <<"/","s","t","a","t","e","/">> }

isFunctionFile(filePath) ==
  IF isStyleFile(filePath) THEN FALSE
  ELSE \/ \E p \in functionPaths : contains(filePath, p)
       \/ contains(filePath, <<"/","s","r","c","/">>)
       \/ contains(filePath, <<"/","l","i","b","/">>)

extMap ==
  (<<".","v","u","e">> :> <<"V","u","e">>) @@
  (<<".","j","s">> :> <<"J","a","v","a","S","c","r","i","p","t">>) @@
  (<<".","t","s">> :> <<"T","y","p","e","S","c","r","i","p","t">>) @@
  (<<".","j","s","x">> :> <<"J","S","X">>) @@
  (<<".","t","s","x">> :> <<"T","S","X">>) @@
  (<<".","c","s","s">> :> <<"C","S","S">>) @@
  (<<".","s","c","s","s">> :> <<"S","a","s","s">>) @@
  (<<".","l","e","s","s">> :> <<"L","e","s","s">>) @@
  (<<".","s","a","s","s">> :> <<"S","a","s","s">>) @@
  (<<".","h","t","m","l">> :> <<"H","T","M","L">>) @@
  (<<".","j","s","o","n">> :> <<"J","S","O","N">>) @@
  (<<".","m","d">> :> <<"M","a","r","k","d","o","w","n">>) @@
  (<<".","p","y">> :> <<"P","y","t","h","o","n">>) @@
  (<<".","j","a","v","a">> :> <<"J","a","v","a">>) @@
  (<<".","g","o">> :> <<"G","o">>)

\* getFileTypeSuffix: extMap[ext.toLowerCase()] || ''
getFileTypeSuffix(ext) ==
  IF toLowerCase(ext) \in DOMAIN extMap THEN extMap[toLowerCase(ext)] ELSE <<>>

\* the directory names the name of an index file skips
nameStoplist ==
  { <<"s","r","c">>, <<"c","o","m","p","o","n","e","n","t","s">>, <<"v","i","e","w","s">>, <<"p","a","g","e","s">> }

\* the loop over pathParts from the parent directory upwards: the nearest
\* two segments that are not empty and not in the stoplist, in path order
relevantParts(filePath) ==
  LET pathParts == splitSlash(filePath)
      hits == {k \in 1..(Len(pathParts) - 1) :
                 pathParts[k] # <<>> /\ pathParts[k] \notin nameStoplist}
  IN IF hits = {} THEN <<>>
     ELSE IF Cardinality(hits) = 1 THEN <<pathParts[SetMax(hits)]>>
     ELSE <<pathParts[SetMax(hits \ {SetMax(hits)})], pathParts[SetMax(hits)]>>

\* part.charAt(0).toUpperCase() + part.slice(1)
capitalize(part) == <<toUpperCaseChar(part[1])>> \o Tail(part)

\* path.basename(path.dirname(p)) of a relative path, '.' when it has no
\* directory
parentDir(filePath) ==
  LET parts == nonEmptyParts(splitSlash(filePath))
  IN IF Len(parts) >= 2 THEN parts[Len(parts) - 1] ELSE <<".">>

\* the name of a suggestion: the basename without extension, and for an
\* index file the camel-joined relevant parts (or the parent directory)
\* behind the file-type label
derivedName(filePath) ==
  LET fileName == suggestionName(filePath)
      parts == relevantParts(filePath)
      joined == IF Len(parts) = 2 THEN parts[1] \o capitalize(parts[2])
                ELSE IF Len(parts) = 1 THEN parts[1]
                ELSE IF parentDir(filePath) # <<".">> THEN parentDir(filePath)
                ELSE fileName
      extSuffix == getFileTypeSuffix(extname(filePath))
  IN IF toLowerCase(fileName) # IndexName THEN fileName
     ELSE IF extSuffix # <<>> THEN <<"(">> \o extSuffix \o <<")", " ">> \o joined
     ELSE joined

createComponentSuggestion(file) ==
  [name |-> derivedName(file.path),
   path |-> file.path,
   relativePath |-> file.path,
   status |-> file.status,
   type |-> IF extname(file.path) = <<>> THEN <<>> ELSE Tail(extname(file.path))]

\* the category rules with the api rule tested first
categoryRules_apiFirst ==
  << [fragments |-> {<<"/","a","p","i","/">>, <<"/","s","e","r","v","i","c","e","s","/">>}, category |-> <<"a","p","i">>],
     [fragments |-> {<<"/","p","a","g","e","s","/">>, <<"/","v","i","e","w","s","/">>}, category |-> <<"p","a","g","e","s">>],
     [fragments |-> {<<"/","u","t","i","l","s","/">>, <<"/","h","e","l","p","e","r","s","/">>}, category |-> <<"u","t","i","l","s">>],
     [fragments |-> {<<"/","s","t","o","r","e","/">>, <<"/","s","t","o","r","e","s","/">>}, category |-> <<"s","t","o","r","e">>],
     [fragments |-> {<<"/","f","e","a","t","u","r","e","s","/">>, <<"/","m","o","d","u","l","e","s","/">>}, category |-> <<"f","e","a","t","u","r","e","s">>] >>

\* the if / else-if chain of createFunctionSuggestion, in its order
categoryRules ==
  << [fragments |-> {<<"/","p","a","g","e","s","/">>, <<"/","v","i","e","w","s","/">>}, category |-> <<"p","a","g","e","s">>],
     [fragments |-> {<<"/","a","p","i","/">>, <<"/","s","e","r","v","i","c","e","s","/">>}, category |-> <<"a","p","i">>],
     [fragments |-> {<<"/","u","t","i","l","s","/">>, <<"/","h","e","l","p","e","r","s","/">>}, category |-> <<"u","t","i","l","s">>],
     [fragments |-> {<<"/","s","t","o","r","e","/">>, <<"/","s","t","o","r","e","s","/">>}, category |-> <<"s","t","o","r","e">>],
     [fragments |-> {<<"/","f","e","a","t","u","r","e","s","/">>, <<"/","m","o","d","u","l","e","s","/">>}, category |-> <<"f","e","a","t","u","r","e","s">>] >>

\* the category of the first rule one of whose fragments the path includes
categoryOf(filePath) ==
  LET hits == {k \in 1..Len(categoryRules) :
                 \E fragment \in categoryRules[k].fragments : contains(filePath, fragment)}
  IN IF hits = {} THEN <<"o","t","h","e","r">> ELSE categoryRules[SetMin(hits)].category

createFunctionSuggestion(file) ==
  [name |-> derivedName(file.path),
   path |-> file.path,
   relativePath |-> file.path,
   description |-> <<derivedName(file.path), categoryOf(file.path)>>,
   category |-> categoryOf(file.path),
   status |-> file.status]

\* the primary rank of a character in the default collation: white space
\* and punctuation before digits before letters, letters whatever their case
collationRank(c) ==
  LET punctuation == <<" ", "_", "-", ".", "(", ")">>
      digits == <<"0","1","2","3","4","5","6","7","8","9">>
      lower == toLowerCaseChar(c)
  IN IF \E k \in 1..26 : LowerChars[k] = lower
     THEN 100 + (CHOOSE k \in 1..26 : LowerChars[k] = lower)
     ELSE IF \E k \in 1..10 : digits[k] = c
     THEN 50 + (CHOOSE k \in 1..10 : digits[k] = c)
     ELSE IF \E k \in 1..Len(punctuation) : punctuation[k] = c
     THEN CHOOSE k \in 1..Len(punctuation) : punctuation[k] = c
     ELSE 0

\* String.prototype.localeCompare: -1, 0 or 1; the letters decide first,
\* then, between strings of the same letters, lower case comes first
localeCompare(a, b) ==
  LET common == IF Len(a) <= Len(b) THEN Len(a) ELSE Len(b)
      primary == {k \in 1..common : collationRank(a[k]) # collationRank(b[k])}
      tertiary == {k \in 1..common : a[k] # b[k]}
  IN IF primary # {}
     THEN IF collationRank(a[SetMin(primary)]) < collationRank(b[SetMin(primary)])
          THEN -1 ELSE 1
     ELSE IF Len(a) # Len(b) THEN IF Len(a) < Len(b) THEN -1 ELSE 1
     ELSE IF tertiary # {}
     THEN IF a[SetMin(tertiary)] \in LowerSet THEN -1 ELSE 1
     ELSE 0

\* if (a.status !== b.status) return a.status === 'A' ? -1 : b.status === 'A' ? 1 : 0;
\* return a.name.localeCompare(b.name)
statusOrder(a, b) ==
  IF a.status # b.status
  THEN IF a.status = "A" THEN -1 ELSE IF b.status = "A" THEN 1 ELSE 0
  ELSE localeCompare(a.name, b.name)

\* the comparator of suggestedComponents.sort / suggestedFunctions.sort
compareSuggestions(kind, a, b) ==
  IF kind = "functions" /\ a.category # b.category
  THEN localeCompare(a.category, b.category)
  ELSE statusOrder(a, b)

\* Array.prototype.sort of V8 on an array shorter than 64: the run at the
\* start of the array is taken as it stands (ascending) or reversed
\* (strictly descending), the rest is placed by binary insertion
runLength(kind, arr) ==
  IF Len(arr) < 2 THEN Len(arr)
  ELSE LET isDescending == compareSuggestions(kind, arr[2], arr[1]) < 0
       IN SetMax({r \in 2..Len(arr) :
                    \A idx \in 3..r :
                      IF isDescending
                      THEN compareSuggestions(kind, arr[idx], arr[idx - 1]) < 0
                      ELSE compareSuggestions(kind, arr[idx], arr[idx - 1]) >= 0})

\* CountAndMakeRun: the array with a descending run reversed
makeRun(kind, arr) ==
  LET run == runLength(kind, arr)
  IN IF Len(arr) >= 2 /\ compareSuggestions(kind, arr[2], arr[1]) < 0
     THEN [k \in 1..Len(arr) |-> IF k <= run THEN arr[run + 1 - k] ELSE arr[k]]
     ELSE arr

\* the binary search of BinaryInsertionSort: where the pivot goes in
\* arr[left..right-1]
RECURSIVE insertionPoint(_, _, _, _, _)
insertionPoint(kind, arr, pivot, left, right) ==
  IF left >= right THEN left
  ELSE LET mid == left + ((right - left) \div 2)
       IN IF compareSuggestions(kind, pivot, arr[mid]) < 0
          THEN insertionPoint(kind, arr, pivot, left, mid)
          ELSE insertionPoint(kind, arr, pivot, mid + 1, right)

\* BinaryInsertionSort from position start on
RECURSIVE binaryInsertionSort(_, _, _)
binaryInsertionSort(kind, arr, start) ==
  IF start > Len(arr) THEN arr
  ELSE LET pivot == arr[start]
           left == insertionPoint(kind, arr, pivot, 1, start)
           placed == SubSeq(arr, 1, left - 1) \o <<pivot>>
                       \o SubSeq(arr, left, start - 1)
                       \o SubSeq(arr, start + 1, Len(arr))
       IN binaryInsertionSort(kind, placed, start + 1)

sortSuggestions(kind, arr) ==
  IF Len(arr) < 2 THEN arr
  ELSE binaryInsertionSort(kind, makeRun(kind, arr), runLength(kind, arr) + 1)

\* a classification with else between the two tests: a component file is
\* never a function file
analyzeDiffForModules_exclusive(files) ==
  LET componentFiles == SelectSeq(files, LAMBDA file : isComponentFile(file.path))
      functionFiles == SelectSeq(files, LAMBDA file : ~isComponentFile(file.path)
                                                       /\ isFunctionFile(file.path))
      suggestedComponents == [k \in 1..Len(componentFiles) |->
                                createComponentSuggestion(componentFiles[k])]
      suggestedFunctions == [k \in 1..Len(functionFiles) |->
                               createFunctionSuggestion(functionFiles[k])]
  IN [components |-> sortSuggestions("components", suggestedComponents),
      functions |-> sortSuggestions("functions", suggestedFunctions)]

\* analyzeDiffForModules: both tests on every file, then the two sorts
analyzeDiffForModules(files) ==
  LET componentFiles == SelectSeq(files, LAMBDA file : isComponentFile(file.path))
      functionFiles == SelectSeq(files, LAMBDA file : isFunctionFile(file.path))
      suggestedComponents == [k \in 1..Len(componentFiles) |->
                                createComponentSuggestion(componentFiles[k])]
      suggestedFunctions == [k \in 1..Len(functionFiles) |->
                               createFunctionSuggestion(functionFiles[k])]
  IN [components |-> sortSuggestions("components", suggestedComponents),
      functions |-> sortSuggestions("functions", suggestedFunctions)]

\* the paths of a diff, relative to the repository root
DiffPaths ==
  { <<"w","/","s","r","c","/","u","i","/","a",".","S","C","S","S">>,
    <<"m","y","B","u","t","t","o","n",".","t","s","x">>,
    <<"B","e","t","a",".","t","s","x">>,
    <<"w","/","u","i","/","d",".","t","s">>,
    <<"w","/","a","p","i","/","p","a","g","e","s","/","x",".","t","s">>,
    <<"w","/","l","i","b","/","a","l","p","h","a",".","t","s">>,
    <<"w","/","a","p","i","/","A","l","p","h","a",".","v","u","e">>,
    <<"w","/","v","i","e","w","s","/","i","n","d","e","x",".","t","s">>,
    <<"w","/","p","a","g","e","s","/","i","n","d","e","x",".","t","s">>,
    <<"b",".","m","d">> }

\* the statuses mapFileStatus gives
DiffStatuses == {"A", "M", "D"}

\* the changed files of a diff: each path once, in any order
DiffLists ==
  UNION {{files \in [1..n -> [path : DiffPaths, status : DiffStatuses]] :
            \A j \in 1..n : \A k \in 1..n : j # k => files[j].path # files[k].path} :
         n \in 0..MaxFiles}

(***************************************************************************)
(* Initial states                                                          *)
(***************************************************************************)
\* no call made to the cache manager outside the batch loop
NoCall == [op |-> "none", seq |-> 0, raised |-> FALSE, returned |-> Null]

StoreIdle ==
  /\ call = NoCall
  /\ fileBefore = NoFile
  /\ recorded = [participants |-> <<>>, checkUsers |-> <<>>, preferences |-> <<>>]
  /\ procs = <<>>

\* no diff analysed
GitIdle ==
  /\ diffFiles = <<>>
  /\ classified = [components |-> <<>>, functions |-> <<>>]

\* no client constructed
HttpIdle == http = [constructed |-> FALSE]

InitCommon ==
  /\ userChoices \in UserChoiceLists
  /\ offered = EmptyMap
  /\ StoreIdle
  /\ GitIdle
  /\ HttpIdle
  /\ now = CACHE_EXPIRY_DAYS + 1
  /\ writable \in BOOLEAN
  /\ results = <<>>
  /\ assignmentResults = <<>>
  /\ finalResults = <<>>
  /\ modules = <<>>
  /\ retries = 0
  /\ prompts = 0
  /\ writes = 0
  /\ prefCalls = <<>>

\* the batch loop is entered with the operator's selection: at least one
\* component (validate), any number of functions (no validate)
Init ==
  /\ InitCommon
  /\ flow \in {"component", "function"}
  /\ selectedFiles \in (IF flow = "component" THEN Selections(ComponentPool, 1)
                        ELSE Selections(FunctionPool, 0))
  /\ cacheFile \in {f \in CacheFiles(CACHE_EXPIRY_DAYS + 1) : f.parsable}
  /\ fileAtExecute = cacheFile
  /\ loopLog = [fileAtStart |-> cacheFile, rounds |-> <<>>]
  /\ batchOptions = NoOptions
  /\ pc = "ModeSelection"

\* executeBatchAssignment called on its own
InitExec ==
  /\ InitCommon
  /\ flow = "direct"
  /\ selectedFiles \in Selections(DirectPool, 0)
  /\ cacheFile \in CacheFiles(CACHE_EXPIRY_DAYS + 1)
  /\ fileAtExecute = cacheFile
  /\ loopLog = [fileAtStart |-> cacheFile, rounds |-> <<>>]
  /\ batchOptions \in DirectOptions(selectedFiles)
  /\ pc = "Execution"

(***************************************************************************)
(* Actions                                                                 *)
(***************************************************************************)
\* collectBatchAssignmentMode, up to the answer of the mode prompt; the
\* individual mode returns {mode: 'individual'} at once
SelectMode ==
  /\ pc = "ModeSelection"
  /\ \E assignmentMode \in {"single", "byType", "byDirectory", "individual"} :
       /\ batchOptions' = [NoOptions EXCEPT !.mode = assignmentMode]
       /\ pc' = IF assignmentMode = "individual" THEN "Individual"
                ELSE "StrategyConfiguration"
  /\ prompts' = prompts + 1
  /\ UNCHANGED <<flow, selectedFiles, userChoices, results, assignmentResults,
                 finalResults, modules, cacheFile, writable, now, retries,
                 writes, prefCalls, fileAtExecute,
                 offered, loopLog, otherVars>>

\* configureSingleAssignment
ConfigureSingle ==
  /\ batchOptions.mode = "single"
  /\ \E defaultReviewer \in choiceValues(userChoices) :
       batchOptions' = [batchOptions EXCEPT !.defaultReviewer = defaultReviewer]
  /\ offered' = offered
  /\ prompts' = prompts + 1

\* configureTypeBasedAssignment: one prompt per extension group
ConfigureByType ==
  /\ batchOptions.mode = "byType"
  /\ \E typeBasedMapping \in [analyzeFileTypes(selectedFiles) -> choiceValues(userChoices)] :
       batchOptions' = [batchOptions EXCEPT !.typeBasedMapping = typeBasedMapping]
  /\ offered' = [extension \in analyzeFileTypes(selectedFiles) |->
                   typePrompt(cacheFile, extension, userChoices, now)]
  /\ prompts' = prompts + Cardinality(analyzeFileTypes(selectedFiles))

\* configureDirectoryBasedAssignment: one prompt per directory group
ConfigureByDirectory ==
  /\ batchOptions.mode = "byDirectory"
  /\ \E directoryBasedMapping \in [analyzeDirectories(selectedFiles) -> choiceValues(userChoices)] :
       batchOptions' = [batchOptions EXCEPT !.directoryBasedMapping = directoryBasedMapping]
  /\ offered' = offered
  /\ prompts' = prompts + Cardinality(analyzeDirectories(selectedFiles))

\* the rest of collectBatchAssignmentMode; the caller then enters
\* executeBatchAssignment (const results = [])
Configure ==
  /\ pc = "StrategyConfiguration"
  /\ (ConfigureSingle \/ ConfigureByType \/ ConfigureByDirectory)
  /\ pc' = "Execution"
  /\ results' = <<>>
  /\ prefCalls' = <<>>
  /\ fileAtExecute' = cacheFile
  /\ UNCHANGED <<flow, selectedFiles, userChoices, assignmentResults, finalResults,
                 modules, cacheFile, writable, now, retries, writes,
                 loopLog, otherVars>>

\* one iteration of the loop of executeBatchAssignment
ExecuteFile ==
  /\ pc = "Execution"
  /\ Len(results) < Len(selectedFiles)
  /\ LET file == selectedFiles[Len(results) + 1]
         result == resultFor(file, batchOptions, userChoices)
         u == updateFileReviewerPreference(cacheFile, file.relativePath,
                                           result.reviewerId, now, writable)
     IN /\ results' = Append(results, result)
        /\ cacheFile' = u.file
        /\ writes' = writes + u.wrote
        /\ prefCalls' = Append(prefCalls, [filePath |-> file.relativePath,
                                           reviewerId |-> result.reviewerId])
  /\ UNCHANGED <<pc, flow, selectedFiles, userChoices, batchOptions, assignmentResults,
                 finalResults, modules, writable, now, retries, prompts, fileAtExecute,
                 offered, loopLog, otherVars>>

\* return results
ExecuteReturn ==
  /\ pc = "Execution"
  /\ Len(results) = Len(selectedFiles)
  /\ assignmentResults' = results
  /\ loopLog' = [loopLog EXCEPT !.rounds = Append(@, results)]
  /\ pc' = IF flow = "direct" THEN "Returned" ELSE "Preview"
  /\ UNCHANGED <<flow, selectedFiles, userChoices, batchOptions, results, finalResults,
                 modules, cacheFile, writable, now, retries, prompts, writes,
                 prefCalls, fileAtExecute,
                 offered, otherVars>>

\* showAssignmentPreview and the branch the caller takes on its answer
Preview ==
  /\ pc = "Preview"
  /\ prompts' = prompts + 1
  /\ assignmentResults' = resultsAfterPreview(assignmentResults)
  /\ \/ /\ pc' = "Adjust"
        /\ modules' = modules
     \/ /\ retries < MaxRetries
        /\ pc' = "Retry"
        /\ modules' = modulesAfterRetry(modules, assignmentResults)
     \/ /\ pc' = "Cancelled"
        /\ modules' = modulesAfterCancel(modules, assignmentResults)
  /\ UNCHANGED <<flow, selectedFiles, userChoices, batchOptions, results, finalResults,
                 cacheFile, writable, now, retries, writes, prefCalls, fileAtExecute,
                 offered, loopLog, otherVars>>

\* batchAssignmentCompleted is still false: the while loop starts over
Retry ==
  /\ pc = "Retry"
  /\ pc' = loopHead
  /\ retries' = retries + 1
  /\ UNCHANGED <<flow, selectedFiles, userChoices, batchOptions, results,
                 assignmentResults, finalResults, modules, cacheFile, writable, now,
                 prompts, writes, prefCalls, fileAtExecute,
                 offered, loopLog, otherVars>>

\* adjustIndividualAssignments, then the caller's conversion of finalResults
Adjust ==
  /\ pc = "Adjust"
  /\ \/ \* needAdjustment = false: return results
        /\ finalResults' = assignmentResults
        /\ modules' = modules \o modulesOfResults(flow, assignmentResults)
        /\ prompts' = prompts + 1
        /\ prefCalls' = <<>>
        /\ UNCHANGED <<assignmentResults, cacheFile, writes>>
     \/ \E filesToAdjust \in SUBSET (1..Len(assignmentResults)) :
          \E newReviewer \in [filesToAdjust -> choiceValues(userChoices)] :
            LET adjusted == adjustedResults(assignmentResults, filesToAdjust,
                                            newReviewer, userChoices)
                calls == adjustCalls(assignmentResults, filesToAdjust, newReviewer, 1)
                u == applyCalls(cacheFile, calls, now, writable)
            IN /\ finalResults' = adjusted
               /\ assignmentResults' = resultsAfterAdjust(assignmentResults, filesToAdjust,
                                                          newReviewer, userChoices)
               /\ modules' = modules \o modulesOfResults(flow, adjusted)
               /\ prompts' = prompts + 2 + Cardinality(filesToAdjust)
               /\ prefCalls' = calls
               /\ cacheFile' = u.file
               /\ writes' = writes + u.wrote
  /\ pc' = "Confirmed"
  /\ UNCHANGED <<flow, selectedFiles, userChoices, batchOptions, results, writable,
                 now, retries, fileAtExecute,
                 offered, loopLog, otherVars>>

\* the individual mode: one reviewer per suggestion, asked only when there
\* is more than one choice
Individual ==
  /\ pc = "Individual"
  /\ \E checkUser \in [1..Len(selectedFiles) -> choiceValues(userChoices)] :
       /\ Len(userChoices) <= 1 => \A k \in 1..Len(selectedFiles) :
                                     checkUser[k] = userChoices[1].value
       /\ modules' = modules \o [k \in 1..Len(selectedFiles) |->
                                   toModule(flow, selectedFiles[k].relativePath, checkUser[k])]
  /\ prompts' = prompts + (IF Len(userChoices) > 1 THEN Len(selectedFiles) ELSE 0)
  /\ pc' = "IndividualDone"
  /\ UNCHANGED <<flow, selectedFiles, userChoices, batchOptions, results,
                 assignmentResults, finalResults, cacheFile, writable, now, retries,
                 writes, prefCalls, fileAtExecute,
                 offered, loopLog, otherVars>>

Next ==
  \/ SelectMode
  \/ Configure
  \/ ExecuteFile
  \/ ExecuteReturn
  \/ Preview
  \/ Retry
  \/ Adjust
  \/ Individual

Spec == Init /\ [][Next]_vars

\* batchAssignmentCompleted = true, or the return of the cancel branch
terminated == pc \in {"Confirmed", "Cancelled", "IndividualDone"}

\* weak fairness of Next, WF_vars(Next), with the enabling condition written
\* out: as long as the loop has not been left the operator answers the
\* pending prompt and the code takes its next step
LoopFairness == []<>terminated \/ []<><<Next>>_vars

\* the batch loop with an operator who answers every prompt and retries at
\* most MaxRetries times
SpecLive == Init /\ [][Next]_vars /\ LoopFairness

NextExec ==
  \/ ExecuteFile
  \/ ExecuteReturn

SpecExec == InitExec /\ [][NextExec]_vars

(***************************************************************************)
(* The usage records of the create command: updateParticipantUsage and     *)
(* updateCheckUserUsage called with one id at a time                       *)
(***************************************************************************)
batchVars == <<flow, selectedFiles, userChoices, batchOptions, results,
               assignmentResults, finalResults, modules, retries, prompts, writes,
               prefCalls, fileAtExecute, offered, loopLog>>

\* the batch loop is not running
BatchIdle ==
  /\ flow = "none"
  /\ selectedFiles = <<>>
  /\ userChoices = <<>>
  /\ batchOptions = NoOptions
  /\ results = <<>>
  /\ assignmentResults = <<>>
  /\ finalResults = <<>>
  /\ modules = <<>>
  /\ retries = 0
  /\ prompts = 0
  /\ writes = 0
  /\ prefCalls = <<>>
  /\ fileAtExecute = NoFile
  /\ offered = EmptyMap
  /\ loopLog = [fileAtStart |-> NoFile, rounds |-> <<>>]

RecentIds == 1..(RECENT_LIMIT + MaxExtraIds)

\* a file written 31 days ago whose lists hold ids
StaleLists ==
  [exists |-> TRUE, parsable |-> TRUE,
   data |-> [getDefaultCache(0) EXCEPT !.recentParticipants = <<2, 1>>,
                                       !.recentCheckUsers = <<2, 1>>,
                                       !.fileReviewerPreferences = PriorPreferences]]

\* the id of the next call, given the ids recorded so far (oldest first):
\* the next id never recorded, or, for the list the run concentrates on, the
\* oldest, the middle or the newest id recorded
usageInputs(history, main) ==
  LET distinct == Cardinality({history[k] : k \in 1..Len(history)})
      fresh == IF main THEN {distinct + 1} \cap RecentIds
               ELSE {distinct + 1} \cap (1..MaxRerecords)
      again == IF main /\ history # <<>> /\ Len(history) - distinct < MaxRerecords
               THEN {history[1], history[(Len(history) + 1) \div 2], history[Len(history)]}
               ELSE {}
  IN fresh \cup again

InitRecent ==
  /\ BatchIdle
  /\ HttpIdle
  /\ GitIdle
  /\ StoreIdle
  /\ pc \in {"Participants", "CheckUsers"}
  /\ now = CACHE_EXPIRY_DAYS + 1
  /\ writable \in BOOLEAN
  /\ cacheFile \in {NoFile, StaleLists}

\* await cacheManager.updateParticipantUsage([id])
RecordParticipant ==
  /\ \E id \in usageInputs(recorded.participants, pc = "Participants") :
       LET u == updateParticipantUsage(cacheFile, <<id>>, now, writable)
       IN /\ cacheFile' = u.file
          /\ call' = [op |-> "updateParticipantUsage", seq |-> call.seq + 1,
                       raised |-> u.raised, returned |-> Null]
          /\ recorded' = [recorded EXCEPT !.participants = Append(@, id)]
  /\ fileBefore' = cacheFile
  /\ UNCHANGED <<pc, writable, now, procs, batchVars, gitVars, http>>

\* await cacheManager.updateCheckUserUsage([id])
RecordCheckUser ==
  /\ \E id \in usageInputs(recorded.checkUsers, pc = "CheckUsers") :
       LET u == updateCheckUserUsage(cacheFile, <<id>>, now, writable)
       IN /\ cacheFile' = u.file
          /\ call' = [op |-> "updateCheckUserUsage", seq |-> call.seq + 1,
                       raised |-> u.raised, returned |-> Null]
          /\ recorded' = [recorded EXCEPT !.checkUsers = Append(@, id)]
  /\ fileBefore' = cacheFile
  /\ UNCHANGED <<pc, writable, now, procs, batchVars, gitVars, http>>

NextRecent ==
  \/ RecordParticipant
  \/ RecordCheckUser

SpecRecent == InitRecent /\ [][NextRecent]_vars

(***************************************************************************)
(* The UserCacheManager called on its own, over any state of the file      *)
(***************************************************************************)
\* recentIds.indexOf(id): 0-based, -1 when absent
indexOf(list, id) ==
  IF includes(list, id) THEN SetMin({k \in 1..Len(list) : list[k] = id}) - 1 ELSE -1

\* user.name || user.realName
displayName(user) ==
  IF "name" \in DOMAIN user /\ user.name # <<>> THEN user.name ELSE user.realName

\* the labels of the recent users ('[zui jin shi yong]' and '[chang yong]')
MostRecentLabel == <<"[","m","o","s","t"," ","r","e","c","e","n","t","]">>
FrequentLabel == <<"[","f","r","e","q","u","e","n","t","]">>

\* the choice entry of a user: with a star and a label for a recent user
\* (label # <<>>), without for another user
smartChoice(user, label) ==
  LET id == <<" ","(","I","D",":"," ">> \o toString(user.id) \o <<")">>
  IN [name |-> IF label = <<>> THEN displayName(user) \o id
               ELSE <<"*"," ">> \o displayName(user) \o id \o <<" ">> \o label,
      value |-> user.id,
      short |-> displayName(user)]

\* recentUsers.sort((a, b) => recentIds.indexOf(aId) - recentIds.indexOf(bId)):
\* the sort is stable and the comparator a total preorder, so every user
\* comes after those of a smaller position and, among equals, those before it
sortByRecency(recentUsers, recentIds) ==
  LET n == Len(recentUsers)
      before(j, k) ==
        \/ indexOf(recentIds, recentUsers[j].id) < indexOf(recentIds, recentUsers[k].id)
        \/ /\ indexOf(recentIds, recentUsers[j].id) = indexOf(recentIds, recentUsers[k].id)
           /\ j < k
  IN [p \in 1..n |->
        recentUsers[CHOOSE k \in 1..n : Cardinality({j \in 1..n : before(j, k)}) = p - 1]]

\* otherUsers.sort((a, b) => (a.name || a.realName).localeCompare(b.name || b.realName))
sortByName(otherUsers) ==
  LET n == Len(otherUsers)
      before(j, k) ==
        \/ localeCompare(displayName(otherUsers[j]), displayName(otherUsers[k])) < 0
        \/ /\ localeCompare(displayName(otherUsers[j]), displayName(otherUsers[k])) = 0
           /\ j < k
  IN [p \in 1..n |->
        otherUsers[CHOOSE k \in 1..n : Cardinality({j \in 1..n : before(j, k)}) = p - 1]]

\* generateSmartUserChoices: [raised, returned]; recentIds.includes on a
\* missing list is a TypeError raised for the first user
generateSmartUserChoices(file, users, type, t) ==
  LET cache == loadCache(file, t)
      field == IF type = "checkUsers" THEN "recentCheckUsers" ELSE "recentParticipants"
  IN IF field \notin DOMAIN cache
     THEN IF users = <<>> THEN [raised |-> FALSE, returned |-> <<>>]
          ELSE [raised |-> TRUE, returned |-> Null]
     ELSE LET recentIds == cache[field]
              recentUsers == sortByRecency(
                               SelectSeq(users, LAMBDA user : includes(recentIds, user.id)),
                               recentIds)
              otherUsers == sortByName(
                              SelectSeq(users, LAMBDA user : ~includes(recentIds, user.id)))
              starred == [k \in 1..Len(recentUsers) |->
                            smartChoice(recentUsers[k],
                                        IF k = 1 THEN MostRecentLabel ELSE FrequentLabel)]
              plain == [k \in 1..Len(otherUsers) |-> smartChoice(otherUsers[k], <<>>)]
              line == IF Len(recentUsers) > 0 /\ Len(otherUsers) > 0
                      THEN <<Separator>> ELSE <<>>
          IN [raised |-> FALSE, returned |-> starred \o line \o plain]

\* the users a choice list is asked for: names out of id order, differing in
\* case, one user with a name besides realName
ChoiceUsers ==
  { [id |-> 0, realName |-> <<"b","o","b">>],
    [id |-> 1, realName |-> <<"a","n","n">>],
    [id |-> 2, realName |-> <<"D","a","n">>],
    [id |-> 3, name |-> <<"c","a","l">>, realName |-> <<"z","o","e">>] }

MaxChoiceUsers == 3

\* lists of different users, in any order
ChoiceUserLists ==
  UNION {{users \in [1..n -> ChoiceUsers] :
            \A j \in 1..n : \A k \in 1..n : j # k => users[j] # users[k]} :
         n \in 0..MaxChoiceUsers}

ListTypes == {"participants", "checkUsers", "creators"}
\* a.ts, b.JS and c (no extension)
StorePaths ==
  { <<"a",".","t","s">>, <<"b",".","J","S">>, <<"c">> }

StorePreferences ==
  (<<".","t","s">> :> (0 :> 1 @@ 1 :> 2)) @@ (<<".","j","s">> :> (0 :> 1 @@ 1 :> 1))

\* a document with the fields the manager writes, last saved at t
StoreDocument(t) ==
  [getDefaultCache(t) EXCEPT !.recentParticipants = <<1, 0>>,
                             !.recentCheckUsers = <<0>>,
                             !.fileReviewerPreferences = StorePreferences]

\* a parsable document without the recency lists, last saved at t
\* (a document without lastUpdated reads as last saved at 0)
CorruptDocument(t) ==
  [fileReviewerPreferences |-> StorePreferences, lastUpdated |-> t]

\* the file at start: absent, unreadable or unparsable, written 30 and 31
\* days ago, and corrupt with and without a recent lastUpdated
StoreFiles(t) ==
  { NoFile,
    [exists |-> TRUE, parsable |-> FALSE, data |-> getDefaultCache(0)],
    [exists |-> TRUE, parsable |-> TRUE, data |-> StoreDocument(t - CACHE_EXPIRY_DAYS)],
    [exists |-> TRUE, parsable |-> TRUE, data |-> StoreDocument(t - CACHE_EXPIRY_DAYS - 1)],
    [exists |-> TRUE, parsable |-> TRUE, data |-> CorruptDocument(t - 1)],
    [exists |-> TRUE, parsable |-> TRUE, data |-> CorruptDocument(0)] }

\* the userIds of a usage call: one id, two ids (different, or one id
\* twice), and one more id than the lists keep
StoreIdLists ==
  {<<u>> : u \in Users} \cup {<<p[1], p[2]>> : p \in Users \X Users}
    \cup {[k \in 1..(RECENT_LIMIT + 1) |-> k - 1]}

\* UserInfo
UserInfo(id) == [id |-> id, realName |-> UserNames[id + 1]]

\* the availableUsers of a recommendation: UserInfo lists, and the choice
\* entries the engine passes
AvailableLists ==
  { <<>>, <<UserInfo(0)>>, <<UserInfo(MaxReviewerId)>>,
    [k \in 1..(MaxReviewerId + 1) |-> UserInfo(k - 1)], AllChoices }

InitStore ==
  /\ BatchIdle
  /\ HttpIdle
  /\ GitIdle
  /\ StoreIdle
  /\ pc = "Store"
  /\ now = CACHE_EXPIRY_DAYS + 1
  /\ writable \in BOOLEAN
  /\ cacheFile \in StoreFiles(CACHE_EXPIRY_DAYS + 1)

\* what every call of the store leaves alone
storeFrame ==
  /\ pc = "Store"
  /\ call.seq < MaxCalls
  /\ fileBefore' = cacheFile
  /\ UNCHANGED <<pc, writable, now, procs, batchVars, gitVars, http>>

\* await cacheManager.loadCache()
StoreLoad ==
  /\ storeFrame
  /\ call' = [op |-> "loadCache", seq |-> call.seq + 1, raised |-> FALSE,
              returned |-> loadCache(cacheFile, now)]
  /\ cacheFile' = cacheFile
  /\ recorded' = recorded

\* await cacheManager.updateParticipantUsage(userIds)
StoreParticipants ==
  /\ storeFrame
  /\ \E userIds \in StoreIdLists :
       LET u == updateParticipantUsage(cacheFile, userIds, now, writable)
       IN /\ cacheFile' = u.file
          /\ call' = [op |-> "updateParticipantUsage", seq |-> call.seq + 1,
                      raised |-> u.raised, returned |-> Null, userIds |-> userIds]
  /\ recorded' = recorded

\* await cacheManager.updateCheckUserUsage(userIds)
StoreCheckUsers ==
  /\ storeFrame
  /\ \E userIds \in StoreIdLists :
       LET u == updateCheckUserUsage(cacheFile, userIds, now, writable)
       IN /\ cacheFile' = u.file
          /\ call' = [op |-> "updateCheckUserUsage", seq |-> call.seq + 1,
                      raised |-> u.raised, returned |-> Null, userIds |-> userIds]
  /\ recorded' = recorded

\* await cacheManager.updateFileReviewerPreference(filePath, reviewerId)
StorePreference ==
  /\ storeFrame
  /\ \E filePath \in StorePaths, reviewerId \in Users :
       LET u == updateFileReviewerPreference(cacheFile, filePath, reviewerId, now, writable)
       IN /\ cacheFile' = u.file
          /\ call' = [op |-> "updateFileReviewerPreference", seq |-> call.seq + 1,
                      raised |-> FALSE, returned |-> Null,
                      filePath |-> filePath, reviewerId |-> reviewerId]
          /\ recorded' = IF u.wrote = 1
                          THEN [recorded EXCEPT !.preferences =
                                  Append(@, [extension |-> toLowerCase(extname(filePath)),
                                             reviewerId |-> reviewerId])]
                          ELSE recorded

\* await cacheManager.getRecommendedReviewerForFile(filePath, availableUsers)
StoreRecommend ==
  /\ storeFrame
  /\ \E filePath \in StorePaths, availableUsers \in AvailableLists :
       call' = [op |-> "getRecommendedReviewerForFile", seq |-> call.seq + 1,
                raised |-> FALSE,
                returned |-> getRecommendedReviewerForFile(cacheFile, filePath,
                                                           availableUsers, now),
                filePath |-> filePath, availableUsers |-> availableUsers]
  /\ cacheFile' = cacheFile
  /\ recorded' = recorded

\* await cacheManager.getCacheStats()
StoreStats ==
  /\ storeFrame
  /\ LET g == getCacheStats(cacheFile, now)
     IN call' = [op |-> "getCacheStats", seq |-> call.seq + 1,
                 raised |-> g.raised, returned |-> g.returned]
  /\ cacheFile' = cacheFile
  /\ recorded' = recorded

NextStore ==
  \/ StoreLoad
  \/ StoreParticipants
  \/ StoreCheckUsers
  \/ StorePreference
  \/ StoreRecommend
  \/ StoreStats

SpecStore == InitStore /\ [][NextStore]_vars

(***************************************************************************)
(* generateSmartUserChoices called over any state of the file              *)
(***************************************************************************)
InitChoices ==
  /\ BatchIdle
  /\ HttpIdle
  /\ GitIdle
  /\ StoreIdle
  /\ pc = "Choices"
  /\ now = CACHE_EXPIRY_DAYS + 1
  /\ writable = TRUE
  /\ cacheFile \in StoreFiles(CACHE_EXPIRY_DAYS + 1)

\* const userChoices = await cacheManager.generateSmartUserChoices(users, type)
SmartChoices ==
  /\ pc = "Choices"
  /\ call.seq = 0
  /\ \E users \in ChoiceUserLists, type \in ListTypes :
       LET g == generateSmartUserChoices(cacheFile, users, type, now)
       IN call' = [op |-> "generateSmartUserChoices", seq |-> 1,
                   raised |-> g.raised, returned |-> g.returned,
                   users |-> users, type |-> type]
  /\ fileBefore' = cacheFile
  /\ UNCHANGED <<pc, cacheFile, writable, now, recorded, procs, batchVars, gitVars, http>>

NextChoices == SmartChoices

SpecChoices == InitChoices /\ [][NextChoices]_vars

(***************************************************************************)
(* Two processes inside updateFileReviewerPreference over the same file    *)
(***************************************************************************)
Procs == {1, 2}

\* a write built from the file as it is when writing, not from the record
\* loaded before
writeBase_reread(loaded, file, t) == loadCache(file, t)

\* the record a process modifies and writes: the one its loadCache returned
writeBase(loaded, file, t) == loaded

InitRace ==
  /\ BatchIdle
  /\ HttpIdle
  /\ GitIdle
  /\ pc = "Race"
  /\ now = CACHE_EXPIRY_DAYS + 1
  /\ writable \in BOOLEAN
  /\ cacheFile \in StoreFiles(CACHE_EXPIRY_DAYS + 1)
  /\ fileBefore = cacheFile
  /\ call = NoCall
  /\ recorded = [participants |-> <<>>, checkUsers |-> <<>>, preferences |-> <<>>]
  /\ procs \in [Procs -> {[at |-> "start", cache |-> getDefaultCache(0),
                           filePath |-> filePath, reviewerId |-> reviewerId] :
                             filePath \in StorePaths, reviewerId \in Users}]

\* const cache = await this.loadCache(); a path without extension returns
RaceLoad(p) ==
  /\ pc = "Race"
  /\ procs[p].at = "start"
  /\ LET extension == toLowerCase(extname(procs[p].filePath))
     IN IF extension = <<>>
        THEN /\ procs' = [procs EXCEPT ![p].at = "done",
                                       ![p].cache = loadCache(cacheFile, now)]
             /\ call' = [op |-> "updateFileReviewerPreference", seq |-> call.seq + 1,
                         raised |-> FALSE, returned |-> Null, proc |-> p, saved |-> FALSE]
        ELSE /\ procs' = [procs EXCEPT ![p].at = "loaded",
                                       ![p].cache = loadCache(cacheFile, now)]
             /\ call' = call
  /\ UNCHANGED <<cacheFile, fileBefore, recorded, writable, now, pc, batchVars, gitVars, http>>

\* the weight is added to the loaded record; await this.saveCache(cache)
RaceSave(p) ==
  /\ pc = "Race"
  /\ procs[p].at = "loaded"
  /\ LET base == writeBase(procs[p].cache, cacheFile, now)
         updated == [base EXCEPT !.fileReviewerPreferences =
                       addWeight(base.fileReviewerPreferences,
                                 toLowerCase(extname(procs[p].filePath)),
                                 procs[p].reviewerId)]
     IN cacheFile' = saveCache(cacheFile, updated, now, writable)
  /\ procs' = [procs EXCEPT ![p].at = "done"]
  /\ call' = [op |-> "updateFileReviewerPreference", seq |-> call.seq + 1,
              raised |-> FALSE, returned |-> Null, proc |-> p, saved |-> TRUE]
  /\ UNCHANGED <<fileBefore, recorded, writable, now, pc, batchVars, gitVars, http>>

RaceLoadStep == \E p \in Procs : RaceLoad(p)

RaceSaveStep == \E p \in Procs : RaceSave(p)

NextRace ==
  \/ RaceLoadStep
  \/ RaceSaveStep

SpecRace == InitRace /\ [][NextRace]_vars

(***************************************************************************)
(* analyzeDiffForModules called on the changed files of a diff             *)
(***************************************************************************)
InitClassify ==
  /\ BatchIdle
  /\ HttpIdle
  /\ StoreIdle
  /\ pc = "Diff"
  /\ now = CACHE_EXPIRY_DAYS + 1
  /\ writable = TRUE
  /\ cacheFile = NoFile
  /\ diffFiles \in DiffLists
  /\ classified = [components |-> <<>>, functions |-> <<>>]

\* gitUtils.analyzeDiffForModules(diffFiles)
Classify ==
  /\ pc = "Diff"
  /\ classified' = analyzeDiffForModules(diffFiles)
  /\ pc' = "Classified"
  /\ UNCHANGED <<diffFiles, cacheFile, writable, now, batchVars, storeVars, http>>

NextClassify == Classify

SpecClassify == InitClassify /\ [][NextClassify]_vars

(***************************************************************************)
(* The GreatWallApiClient: one request with its retries                    *)
(***************************************************************************)
\* the largest retryCount a caller passes
MaxRetryCount == 2

\* String.prototype.includes
stringIncludes(s, sub) ==
  \E i \in 1..(Len(s) - Len(sub) + 1) : SubSeq(s, i, i + Len(sub) - 1) = sub

DecimalDigits == <<"0","1","2","3","4","5","6","7","8","9">>

RECURSIVE numberToString(_)
\* String(n) of a natural number
numberToString(n) ==
  IF n < 10 THEN <<DecimalDigits[n + 1]>>
  ELSE numberToString(n \div 10) \o <<DecimalDigits[(n % 10) + 1]>>

\* new Error(message), and the errors fetch rejects with
Error(message) == [name |-> "Error", message |-> message]
FetchFailed == [name |-> "TypeError", message |-> <<"f","e","t","c","h"," ","f","a","i","l","e","d">>]
TimeoutError == [name |-> "TimeoutError",
                 message |-> <<"a","b","o","r","t","e","d"," ","d","u","e"," ","t","o"," ","t","i","m","e","o","u","t">>]
AbortError == [name |-> "AbortError", message |-> <<"T","h","i","s"," ","o","p","e","r","a","t","i","o","n"," ","w","a","s"," ","a","b","o","r","t","e","d">>]
\* what response.json() raises on a body that is no JSON, and what
\* data.success raises on the body null
NotJson == [name |-> "SyntaxError", message |-> <<"U","n","e","x","p","e","c","t","e","d"," ","t","o","k","e","n"," ","<"," ","i","n"," ","J","S","O","N">>]
NullBody == [name |-> "TypeError", message |-> <<"C","a","n","n","o","t"," ","r","e","a","d"," ","p","r","o","p","e","r","t","i","e","s"," ","o","f"," ","n","u","l","l">>]

\* the bodies a response carries: an object, null, or no JSON at all
Bodies ==
  { [json |-> "object", data |-> [success |-> TRUE, code |-> 200]],
    [json |-> "object", data |-> [code |-> 200, message |-> <<"o","k">>]],
    [json |-> "object", data |-> [code |-> 0]],
    [json |-> "object", data |-> [success |-> FALSE, errorMsg |-> <<"t","o","k","e","n"," ","i","n","v","a","l","i","d">>, errorCode |-> 401]],
    [json |-> "object", data |-> [success |-> FALSE, errorMsg |-> <<>>,
                                  message |-> <<"g","a","t","e","w","a","y"," ","t","i","m","e","o","u","t">>, errorCode |-> 0, code |-> 504]],
    [json |-> "object", data |-> [success |-> FALSE]],
    [json |-> "object", data |-> [code |-> 500]],
    [json |-> "object", data |-> [code |-> 503, message |-> <<"n","e","t","w","o","r","k"," ","b","u","s","y">>]],
    [json |-> "null", data |-> [code |-> 0]],
    [json |-> "invalid", data |-> [code |-> 0]] }

\* what one fetch can come to: a rejection, a response that is not ok, or a
\* response with a body
Rejections == {[kind |-> "rejected", error |-> e] : e \in {FetchFailed, TimeoutError, AbortError}}

NotOkResponses ==
  { [kind |-> "response", ok |-> FALSE, status |-> 500, statusText |-> <<"I","n","t","e","r","n","a","l"," ","S","e","r","v","e","r"," ","E","r","r","o","r">>],
    [kind |-> "response", ok |-> FALSE, status |-> 504, statusText |-> <<"G","a","t","e","w","a","y"," ","T","i","m","e","o","u","t">>],
    [kind |-> "response", ok |-> FALSE, status |-> 404, statusText |-> <<>>],
    [kind |-> "response", ok |-> FALSE, status |-> 503, statusText |-> <<"u","p","s","t","r","e","a","m"," ","t","i","m","e","o","u","t">>] }

OkResponses == {[kind |-> "response", ok |-> TRUE, status |-> 200, body |-> b] : b \in Bodies}

\* the signal of the request is made once and shared by every attempt: once
\* it has fired, fetch rejects with the reason of the signal
FetchResults(aborted) ==
  IF aborted
  THEN {r \in Rejections : r.error \in {TimeoutError, AbortError}}
  ELSE Rejections \cup NotOkResponses \cup OkResponses

\* data.errorMsg || data.message || the default message
errorMsgOf(data) ==
  IF "errorMsg" \in DOMAIN data /\ data.errorMsg # <<>> THEN data.errorMsg
  ELSE IF "message" \in DOMAIN data /\ data.message # <<>> THEN data.message
  ELSE <<"G","r","e","a","t","W","a","l","l"," ","A","P","I"," ","e","r","r","o","r">>

\* data.errorCode || data.code || 'UNKNOWN', as the template prints it
errorCodeOf(data) ==
  IF "errorCode" \in DOMAIN data /\ data.errorCode # 0 THEN numberToString(data.errorCode)
  ELSE IF "code" \in DOMAIN data /\ data.code # 0 THEN numberToString(data.code)
  ELSE <<"U","N","K","N","O","W","N">>

\* the checks of the try block on the parsed body
checkData(data) ==
  IF "success" \in DOMAIN data /\ data.success = FALSE
  THEN [kind |-> "error",
        error |-> Error(errorMsgOf(data) \o <<" ","(","c","o","d","e",":"," ">> \o errorCodeOf(data) \o <<")">>)]
  ELSE IF "code" \in DOMAIN data /\ data.code # 0 /\ data.code # 200
  THEN [kind |-> "error",
        error |-> Error(IF "message" \in DOMAIN data /\ data.message # <<>>
                        THEN data.message
                        ELSE <<"G","r","e","a","t","W","a","l","l"," ","A","P","I"," ","e","r","r","o","r",":"," ">> \o numberToString(data.code))]
  ELSE [kind |-> "data", data |-> data]

\* the try block of executeWithRetry on what fetch came to:
\* [kind |-> "data", data] when it returns, [kind |-> "error", error] when it throws
attempt(result) ==
  IF result.kind = "rejected" THEN [kind |-> "error", error |-> result.error]
  ELSE IF ~result.ok
  THEN [kind |-> "error",
        error |-> Error(<<"H","T","T","P"," ">> \o numberToString(result.status) \o <<":"," ">> \o result.statusText)]
  ELSE IF result.body.json = "invalid" THEN [kind |-> "error", error |-> NotJson]
  ELSE IF result.body.json = "null" THEN [kind |-> "error", error |-> NullBody]
  ELSE checkData(result.body.data)

\* a shouldRetry that accepts every error
shouldRetry_always(error) ==
  TRUE

\* shouldRetry
shouldRetry(error) ==
  \/ error.name = "AbortError"
  \/ stringIncludes(error.message, <<"f","e","t","c","h">>)
  \/ stringIncludes(error.message, <<"n","e","t","w","o","r","k">>)
  \/ stringIncludes(error.message, <<"t","i","m","e","o","u","t">>)

\* config.retryCount ?? 3
configRetryCount(retryCount) == IF retryCount = Undefined THEN 3 ELSE retryCount

NoOutcome == [kind |-> "none"]

\* the client after new GreatWallApiClient(config)
InitHttp ==
  /\ BatchIdle
  /\ StoreIdle
  /\ GitIdle
  /\ pc = "Request"
  /\ now = CACHE_EXPIRY_DAYS + 1
  /\ writable = TRUE
  /\ cacheFile = NoFile
  /\ \E retryCount \in {Undefined} \cup 0..MaxRetryCount :
       http = [constructed |-> TRUE,
               config |-> [retryCount |-> configRetryCount(retryCount)],
               retryCount |-> Undefined, retriesLeft |-> Undefined,
               aborted |-> FALSE, log |-> <<>>, outcome |-> NoOutcome]

httpFrame == UNCHANGED <<cacheFile, writable, now, batchVars, storeVars, gitVars>>

\* request: the options are destructured, the signal is made, and
\* executeWithRetry is entered with retryCount retries left
HttpRequest ==
  /\ pc = "Request"
  /\ \E option \in {Undefined} \cup 0..MaxRetryCount :
       LET retryCount == IF option = Undefined THEN http.config.retryCount ELSE option
       IN http' = [http EXCEPT !.retryCount = retryCount, !.retriesLeft = retryCount]
  /\ pc' = "Fetch"
  /\ httpFrame

\* executeWithRetry from its entry to its return, its throw, or the await of
\* the delay
HttpAttempt ==
  /\ pc = "Fetch"
  /\ \E result \in FetchResults(http.aborted) :
       LET outcome == attempt(result)
           again == /\ outcome.kind = "error"
                    /\ http.retriesLeft > 0
                    /\ shouldRetry(outcome.error)
       IN /\ http' = [http EXCEPT
                        !.log = Append(@, outcome),
                        !.outcome = IF again THEN NoOutcome ELSE outcome,
                        !.aborted = @ \/ (result.kind = "rejected"
                                          /\ result.error \in {TimeoutError, AbortError})]
          /\ pc' = IF again THEN "Delay"
                   ELSE IF outcome.kind = "error" THEN "Raised" ELSE "Responded"
  /\ httpFrame

\* the delay is over (the timeout of the signal may have passed meanwhile):
\* executeWithRetry(url, options, retriesLeft - 1)
HttpDelay ==
  /\ pc = "Delay"
  /\ \E fired \in BOOLEAN :
       http' = [http EXCEPT !.retriesLeft = @ - 1, !.aborted = @ \/ fired]
  /\ pc' = "Fetch"
  /\ httpFrame

NextHttp ==
  \/ HttpRequest
  \/ HttpAttempt
  \/ HttpDelay

SpecHttp == InitHttp /\ [][NextHttp]_vars

\* fetch settles (at the latest when the signal fires) and the timer of the
\* delay runs out: no step of the request waits for ever
SpecHttpFair == InitHttp /\ [][NextHttp]_vars /\ WF_vars(NextHttp)

TypeOK ==
  /\ pc \in {"ModeSelection", "StrategyConfiguration", "Execution", "Preview", "Retry",
             "Adjust", "Individual", "Confirmed", "Cancelled", "IndividualDone", "Returned"}
  /\ Len(results) <= Len(selectedFiles)
  /\ retries \in 0..MaxRetries


(***************************************************************************)
(* Properties of executeBatchAssignment (checked under SpecExec)           *)
(***************************************************************************)
\* executeBatchAssignment has returned to its caller
executed == pc \in {"Returned", "Preview"}

\* the lower-cased extension of a path, '' when it has none
lowerExtension(filePath) == toLowerCase(extname(filePath))

\* C1: execute returns one result per candidate file, in the order of the
\* candidates, each with filePath equal to the file's relativePath; in mode
\* single every result carries defaultReviewer; the results are a function of
\* (selectedFiles, batchOptions, userChoices) alone, whatever the cache file holds
C1_OneResultPerFile ==
  executed =>
    /\ Len(assignmentResults) = Len(selectedFiles)
    /\ \A k \in 1..Len(selectedFiles) :
         /\ assignmentResults[k].filePath = selectedFiles[k].relativePath
         /\ batchOptions.mode = "single" =>
              assignmentResults[k].reviewerId = batchOptions.defaultReviewer
         /\ assignmentResults[k] = resultFor(selectedFiles[k], batchOptions, userChoices)

C1_Witness ==
  /\ pc = "Returned"
  /\ Len(selectedFiles) >= 2
  /\ batchOptions.mode = "single"
  /\ batchOptions.defaultReviewer # userChoices[1].value
  /\ cacheFile.data.fileReviewerPreferences # EmptyMap

\* C2: in mode byType every file whose lower-cased extension is a key of
\* typeBasedMapping gets the reviewer mapped to that extension, and the
\* reason names the extension
C2_MappedExtension ==
  (executed /\ batchOptions.mode = "byType") =>
    \A k \in 1..Len(selectedFiles) :
      LET e == lowerExtension(selectedFiles[k].relativePath)
      IN e \in DOMAIN batchOptions.typeBasedMapping =>
           /\ assignmentResults[k].reviewerId = batchOptions.typeBasedMapping[e]
           /\ assignmentResults[k].assignmentReason = <<"file type: ", e>>

\* C3: in mode byType the fallback is taken only when the extension's own
\* entry is absent: then the '.other' entry decides, and the first reviewer
\* choice when that is absent too; an entry decides whatever id it holds
C3_FallbackOnlyWhenAbsent ==
  (executed /\ batchOptions.mode = "byType") =>
    \A k \in 1..Len(selectedFiles) :
      LET e == extensionKey(selectedFiles[k].relativePath)
          m == batchOptions.typeBasedMapping
      IN assignmentResults[k].reviewerId =
           IF e \in DOMAIN m THEN m[e]
           ELSE IF OtherExt \in DOMAIN m THEN m[OtherExt]
           ELSE userChoices[1].value

\* the directory key as the claim words it: the first segment that is a
\* meaningful name, else the first path segment, else root
directoryKey(filePath) ==
  LET parts == nonEmptyParts(splitSlash(filePath))
  IN IF \E k \in 1..Len(parts) : toLowerCase(parts[k]) \in meaningfulDirs
     THEN parts[CHOOSE k \in 1..Len(parts) :
                  /\ toLowerCase(parts[k]) \in meaningfulDirs
                  /\ \A j \in 1..(k - 1) : toLowerCase(parts[j]) \notin meaningfulDirs]
     ELSE IF Len(parts) > 1 THEN parts[1] ELSE RootDir

\* C4: in mode byDirectory every file gets the reviewer mapped to its
\* directory key, and the first reviewer choice when the key is unmapped
C4_DirectoryMapping ==
  (executed /\ batchOptions.mode = "byDirectory") =>
    \A k \in 1..Len(selectedFiles) :
      LET d == directoryKey(selectedFiles[k].relativePath)
          m == batchOptions.directoryBasedMapping
      IN assignmentResults[k].reviewerId =
           IF d \in DOMAIN m THEN m[d] ELSE userChoices[1].value

\* a cache file that is read as it is: present, parsable, not expired
readable(file, t) ==
  file.exists /\ file.parsable /\ t - file.data.lastUpdated <= CACHE_EXPIRY_DAYS

\* the results of rs with the given lower-cased extension and reviewer
countOf(rs, extension, reviewerId) ==
  Cardinality({k \in 1..Len(rs) : /\ lowerExtension(rs[k].filePath) = extension
                                  /\ rs[k].reviewerId = reviewerId})

extensionsOf(rs) == {lowerExtension(rs[k].filePath) : k \in 1..Len(rs)} \ {<<>>}

\* the reviewers with a weight for the extension in the file, when it is read
\* as it is, that are among the values of the choices
weightedChoices(file, extension, choices, t) ==
  {r \in choiceValues(choices) :
     readable(file, t) /\ weightOf(file.data.fileReviewerPreferences, extension, r) > 0}

\* C11: in byType configuration, for every extension group with a weighted
\* reviewer among the reviewer choices, the list prompt of that extension has
\* such a reviewer as its default and as the first entry of its choices
C11_RecommendationOffered ==
  (pc = "Execution" /\ batchOptions.mode = "byType") =>
    \A extension \in DOMAIN offered :
      weightedChoices(fileAtExecute, extension, userChoices, now) # {} =>
        /\ offered[extension].default
              \in weightedChoices(fileAtExecute, extension, userChoices, now)
        /\ offered[extension].choices[1].value = offered[extension].default

\* C5: every result is passed to updateFileReviewerPreference, whatever the
\* mode; on a readable, writable, non-expired cache file the weight of every
\* (extension, reviewer) has grown, after each file of the loop, by the number
\* of results so far with that extension and reviewer
C5_EveryMappingRecorded ==
  pc \in {"Execution", "Returned"} =>
    /\ prefCalls = [k \in 1..Len(results) |->
                      [filePath |-> results[k].filePath, reviewerId |-> results[k].reviewerId]]
    /\ (readable(fileAtExecute, now) /\ writable) =>
         \A e \in extensionsOf(results)
                  \cup DOMAIN fileAtExecute.data.fileReviewerPreferences
                  \cup DOMAIN cacheFile.data.fileReviewerPreferences :
           \A r \in Users :
             weightOf(cacheFile.data.fileReviewerPreferences, e, r) =
               weightOf(fileAtExecute.data.fileReviewerPreferences, e, r)
                 + countOf(results, e, r)

C5_Witness ==
  /\ pc = "Returned"
  /\ readable(fileAtExecute, now) /\ writable
  /\ \E r \in Users :
       /\ countOf(assignmentResults, <<".","t","s">>, r) = 2
       /\ weightOf(fileAtExecute.data.fileReviewerPreferences, <<".","t","s">>, r) = 2
       /\ weightOf(cacheFile.data.fileReviewerPreferences, <<".","t","s">>, r) = 4


(***************************************************************************)
(* Properties of the batch loop (checked under Spec)                       *)
(***************************************************************************)
\* C6: when the preview is cancelled the flow returns an empty module list:
\* nothing of the cancelled round or of an earlier retried round is applied
C6_CancelReturnsNothing ==
  pc = "Cancelled" => modules = <<>>

C6_Witness ==
  /\ pc = "Cancelled"
  /\ retries >= 1
  /\ Len(assignmentResults) >= 2
  /\ modules = <<>>

\* C7: a step of showAssignmentPreview leaves the results, the cache file and
\* the calls made to the cache as they are, and nothing is persisted once the
\* flow is cancelled
previewStepFrame ==
  pc \in {"Preview", "Cancelled"} =>
    /\ assignmentResults' = assignmentResults
    /\ cacheFile' = cacheFile
    /\ writes' = writes
    /\ prefCalls' = prefCalls

C7_PreviewChangesNothing == [][previewStepFrame]_vars

C7_Witness ==
  /\ pc = "Cancelled"
  /\ Len(assignmentResults) >= 2
  /\ assignmentResults[1] # assignmentResults[2]
  /\ writes >= 2
  /\ prefCalls = [k \in 1..Len(assignmentResults) |->
                    [filePath |-> assignmentResults[k].filePath,
                     reviewerId |-> assignmentResults[k].reviewerId]]

\* C8 as claimed: after a retry the next state is StrategyConfiguration
C8_RetryToConfiguration ==
  [][pc = "Retry" => pc' = "StrategyConfiguration"]_vars

\* C8 as amended: ModeSelection, StrategyConfiguration, Execution and Preview
\* follow each other (the individual mode leaves after ModeSelection); after
\* a retry the next state is ModeSelection, and a retry always has a next state
workflowStep ==
  /\ pc = "ModeSelection" => pc' \in {"StrategyConfiguration", "Individual"}
  /\ pc = "StrategyConfiguration" => pc' = "Execution"
  /\ pc = "Execution" => pc' \in {"Execution", "Preview"}
  /\ pc = "Preview" => pc' \in {"Adjust", "Retry", "Cancelled"}
  /\ pc = "Retry" => pc' = "ModeSelection"

C8_RetryToModeSelection ==
  /\ [][workflowStep]_vars
  /\ [](pc = "Retry" => ENABLED Next)

C8_Witness ==
  /\ pc = "Preview"
  /\ retries >= 1

\* C9: with an empty candidate list the workflow issues no prompt
C9_EmptyListNoPrompt ==
  selectedFiles = <<>> => prompts = 0

\* the results of fr that carry the manual-adjustment reason
adjustedIndices(fr) ==
  {k \in 1..Len(fr) : fr[k].assignmentReason = <<"manual adjustment">>}

\* the calls the adjustments of fr ask for, in index order
RECURSIVE overrideCalls(_, _)
overrideCalls(fr, from) ==
  IF from > Len(fr) THEN <<>>
  ELSE (IF from \in adjustedIndices(fr)
        THEN <<[filePath |-> fr[from].filePath, reviewerId |-> fr[from].reviewerId]>>
        ELSE <<>>) \o overrideCalls(fr, from + 1)

\* C10: adjust returns a list of the same length and order; a result that was
\* not selected is unchanged; a selected one keeps filePath and fileName, has
\* a reviewer of the choice list and the manual-adjustment reason; each
\* override is passed once to updateFileReviewerPreference with the file's
\* path and, on a readable writable cache file, adds one to its weight; the
\* list passed in is not modified
adjustStep ==
  pc = "Adjust" =>
       /\ assignmentResults' = assignmentResults
       /\ Len(finalResults') = Len(assignmentResults)
       /\ \A k \in 1..Len(assignmentResults) :
            /\ finalResults'[k].filePath = assignmentResults[k].filePath
            /\ finalResults'[k].fileName = assignmentResults[k].fileName
            /\ k \notin adjustedIndices(finalResults') =>
                 finalResults'[k] = assignmentResults[k]
            /\ k \in adjustedIndices(finalResults') =>
                 /\ finalResults'[k].reviewerId \in choiceValues(userChoices)
                 /\ finalResults'[k].reviewerName =
                      reviewerNameOf(finalResults'[k].reviewerId, userChoices)
       /\ prefCalls' = overrideCalls(finalResults', 1)
       /\ (readable(cacheFile, now) /\ writable) =>
            \A e \in extensionsOf(assignmentResults)
                     \cup DOMAIN cacheFile.data.fileReviewerPreferences
                     \cup DOMAIN cacheFile'.data.fileReviewerPreferences :
              \A r \in Users :
                weightOf(cacheFile'.data.fileReviewerPreferences, e, r) =
                  weightOf(cacheFile.data.fileReviewerPreferences, e, r)
                    + Cardinality({k \in adjustedIndices(finalResults') :
                                     /\ lowerExtension(finalResults'[k].filePath) = e
                                     /\ finalResults'[k].reviewerId = r})

C10_AdjustOverridesSelected == [][adjustStep]_vars

C10_Witness ==
  /\ pc = "Confirmed"
  /\ Len(finalResults) >= 2
  /\ \E k \in adjustedIndices(finalResults) :
       /\ finalResults[k].reviewerId # assignmentResults[k].reviewerId
       /\ Len(prefCalls) = 1
       /\ prefCalls[1].filePath = finalResults[k].filePath
  /\ \E k \in 1..Len(finalResults) :
       /\ k \notin adjustedIndices(finalResults)
       /\ finalResults[k] = assignmentResults[k]

(***************************************************************************)
(* Properties of the recency lists (checked under SpecRecent)              *)
(***************************************************************************)
\* the position of the last recording of an id in a history
lastRecording(history, id) == SetMax({k \in 1..Len(history) : history[k] = id})

\* list holds distinct recorded ids, most recently recorded first, as many as
\* there are but at most 20, and every id left out was recorded before them
isRecentOf(list, history) ==
  LET ids == {history[k] : k \in 1..Len(history)}
  IN /\ Len(list) = IF Cardinality(ids) <= 20 THEN Cardinality(ids) ELSE 20
     /\ \A k \in 1..Len(list) : list[k] \in ids
     /\ \A k \in 1..(Len(list) - 1) :
          lastRecording(history, list[k]) > lastRecording(history, list[k + 1])
     /\ \A id \in ids :
          \/ includes(list, id)
          \/ lastRecording(history, id) < lastRecording(history, list[Len(list)])

\* C12: while writes succeed, after any sequence of usage calls that each
\* record one id the list the store loads holds the distinct ids recorded,
\* ordered by their last recording, most recent first, truncated to the 20
\* most recent; this holds for recentParticipants and for recentCheckUsers
C12_RecentListsCapped ==
  (pc \in {"Participants", "CheckUsers"} /\ writable) =>
    /\ isRecentOf(loadCache(cacheFile, now).recentParticipants, recorded.participants)
    /\ isRecentOf(loadCache(cacheFile, now).recentCheckUsers, recorded.checkUsers)

C12_Witness ==
  /\ pc = "Participants"
  /\ writable
  /\ Cardinality({recorded.participants[k] : k \in 1..Len(recorded.participants)}) = 25
  /\ Len(recorded.participants) > 25
  /\ Len(cacheFile.data.recentParticipants) = 20
  /\ cacheFile.data.recentParticipants[1] = recorded.participants[Len(recorded.participants)]
  /\ ~includes(cacheFile.data.recentParticipants, 2)
  /\ cacheFile.data.recentCheckUsers # <<>>

(***************************************************************************)
(* Properties of the UserCacheManager (checked under SpecStore)            *)
(***************************************************************************)
\* a persisted record whose lastUpdated is more than 30 days before t
stale(file, t) ==
  file.exists /\ file.parsable /\ t - file.data.lastUpdated > CACHE_EXPIRY_DAYS

\* the ids of a usage call that a list can keep
firstTwenty(list) == SubSeq(list, 1, IF Len(list) < 20 THEN Len(list) ELSE 20)

\* C13: a load on a persisted record older than 30 days returns a fresh
\* default record (empty recency lists, no weights) and leaves the file as it
\* is; a mutating call on it that writes persists the default record plus its
\* own update only: the ids of a usage call in its list and the other list
\* empty with no weights, or the one weight of a preference call with both
\* lists empty (of more than 20 ids the first 20)
C13_StaleRecordDropped ==
  (pc = "Store" /\ stale(fileBefore, now)) =>
    /\ call.op = "loadCache" =>
         /\ call.returned = [recentParticipants |-> <<>>, recentCheckUsers |-> <<>>,
                             fileReviewerPreferences |-> EmptyMap, lastUpdated |-> now]
         /\ cacheFile = fileBefore
    /\ (call.op = "updateParticipantUsage" /\ writable) =>
         cacheFile.data = [recentParticipants |-> firstTwenty(call.userIds),
                           recentCheckUsers |-> <<>>,
                           fileReviewerPreferences |-> EmptyMap, lastUpdated |-> now]
    /\ (call.op = "updateCheckUserUsage" /\ writable) =>
         cacheFile.data = [recentParticipants |-> <<>>,
                           recentCheckUsers |-> firstTwenty(call.userIds),
                           fileReviewerPreferences |-> EmptyMap, lastUpdated |-> now]
    /\ (call.op = "updateFileReviewerPreference" /\ writable
          /\ lowerExtension(call.filePath) # <<>>) =>
         cacheFile.data = [recentParticipants |-> <<>>, recentCheckUsers |-> <<>>,
                           fileReviewerPreferences |->
                             (lowerExtension(call.filePath) :> (call.reviewerId :> 1)),
                           lastUpdated |-> now]

C13_Witness ==
  /\ pc = "Store"
  /\ call.seq = 2
  /\ call.op = "updateFileReviewerPreference"
  /\ stale(fileBefore, now)
  /\ "recentParticipants" \in DOMAIN fileBefore.data
  /\ fileBefore.data.recentParticipants # <<>>
  /\ weightOf(fileBefore.data.fileReviewerPreferences, <<".","t","s">>, 1) = 2
  /\ cacheFile # fileBefore
  /\ weightOf(cacheFile.data.fileReviewerPreferences, <<".","t","s">>, 1) = 1
  /\ cacheFile.data.recentParticipants = <<>>

\* the ids of the users of a list that have one
availableIds(availableUsers) ==
  {idOf(availableUsers[k]) : k \in 1..Len(availableUsers)} \ {Undefined}

\* the weight the store holds for a reviewer and an extension: that of the
\* file when it is read as it is, none otherwise
storedWeight(file, extension, reviewerId, t) ==
  IF readable(file, t)
  THEN weightOf(file.data.fileReviewerPreferences, extension, reviewerId)
  ELSE 0

\* C14: a recommendation is a reviewer with a weight for the extension who is
\* among the available users and whom no available user exceeds in weight;
\* it is none exactly when no available user has a weight for the extension
C14_HighestAvailableWeight ==
  (pc = "Store" /\ call.op = "getRecommendedReviewerForFile") =>
    LET extension == lowerExtension(call.filePath)
        candidates == {r \in availableIds(call.availableUsers) :
                         storedWeight(cacheFile, extension, r, now) > 0}
    IN /\ call.returned = Null <=> candidates = {}
       /\ call.returned # Null =>
            /\ call.returned \in candidates
            /\ \A q \in candidates :
                 storedWeight(cacheFile, extension, q, now)
                   <= storedWeight(cacheFile, extension, call.returned, now)

C14_Witness ==
  /\ pc = "Store"
  /\ call.op = "getRecommendedReviewerForFile"
  /\ call.seq = 2
  /\ call.availableUsers = <<UserInfo(0)>>
  /\ call.returned = 0
  /\ storedWeight(cacheFile, <<".","t","s">>, 1, now)
       > storedWeight(cacheFile, <<".","t","s">>, 0, now)
  /\ lowerExtension(call.filePath) = <<".","t","s">>

\* a file the store cannot use as it is: absent, unreadable or unparsable, or
\* parsable without the recency lists
defective(file) ==
  \/ ~file.exists
  \/ ~file.parsable
  \/ "recentParticipants" \notin DOMAIN file.data
  \/ "recentCheckUsers" \notin DOMAIN file.data

\* C16: no call of the store raises, whatever the state of the file, and on
\* a defective file a load returns the default record
C16_NoStoreCallRaises ==
  pc = "Store" =>
    /\ ~call.raised
    /\ (call.op = "loadCache" /\ defective(fileBefore)) =>
         call.returned = getDefaultCache(now)

(***************************************************************************)
(* Properties of concurrent calls (checked under SpecRace)                 *)
(***************************************************************************)
\* 1 when the call of process p adds to the weight of (extension, reviewer)
addedBy(p, extension, reviewerId) ==
  IF lowerExtension(procs[p].filePath) = extension /\ procs[p].reviewerId = reviewerId
  THEN 1 ELSE 0

\* C15: two processes in a mutating call against the same file both complete
\* without error, and whenever a write succeeds the document is the record
\* the writer loaded earlier plus its own update, whatever was written in
\* between: nothing is merged, detected or reported (the reachable state in
\* which the earlier writer's update is missing is C15_Witness)
C15_LastWriteWins ==
  pc = "Race" =>
    /\ ~call.raised
    /\ (call.op # "none" /\ call.saved /\ writable) =>
         \A extension \in {lowerExtension(path) : path \in StorePaths} \ {<<>>} :
           \A r \in Users :
             weightOf(cacheFile.data.fileReviewerPreferences, extension, r) =
               weightOf(procs[call.proc].cache.fileReviewerPreferences, extension, r)
                 + addedBy(call.proc, extension, r)

C15_Witness ==
  /\ pc = "Race"
  /\ writable
  /\ readable(fileBefore, now)
  /\ \A p \in Procs : procs[p].at = "done"
  /\ call.seq = 2
  /\ call.saved
  /\ \E earlier \in Procs \ {call.proc} :
       /\ lowerExtension(procs[earlier].filePath) # <<>>
       /\ procs[earlier].reviewerId # procs[call.proc].reviewerId
       /\ weightOf(cacheFile.data.fileReviewerPreferences,
                   lowerExtension(procs[earlier].filePath), procs[earlier].reviewerId)
            = weightOf(fileBefore.data.fileReviewerPreferences,
                       lowerExtension(procs[earlier].filePath), procs[earlier].reviewerId)
       /\ weightOf(cacheFile.data.fileReviewerPreferences,
                   lowerExtension(procs[call.proc].filePath), procs[call.proc].reviewerId)
            = 1 + weightOf(fileBefore.data.fileReviewerPreferences,
                           lowerExtension(procs[call.proc].filePath),
                           procs[call.proc].reviewerId)

(***************************************************************************)
(* Properties of analyzeDiffForModules (checked under SpecClassify)        *)
(***************************************************************************)
\* the paths of a list of suggestions or of changed files
pathsOf(list) == {list[k].path : k \in 1..Len(list)}

\* the path ends, whatever its case, in a stylesheet extension
hasStyleEnding(filePath) ==
  \E ext \in { <<".","c","s","s">>, <<".","s","c","s","s">>, <<".","s","a","s","s">>,
               <<".","l","e","s","s">>, <<".","s","t","y","l">>, <<".","s","t","y","l","u","s">> } :
    endsWith(toLowerCase(filePath), ext)

\* C17: no file whose path ends, case-insensitively, in a stylesheet
\* extension is among the components or the functions returned, whatever
\* path fragments it contains
C17_StylesheetsExcluded ==
  pc = "Classified" =>
    \A filePath \in pathsOf(classified.components) \cup pathsOf(classified.functions) :
      ~hasStyleEnding(filePath)

C17_Witness ==
  /\ pc = "Classified"
  /\ \E k \in 1..Len(diffFiles) :
       /\ hasStyleEnding(diffFiles[k].path)
       /\ diffFiles[k].path # toLowerCase(diffFiles[k].path)
       /\ contains(diffFiles[k].path, <<"/","u","i","/">>)
       /\ contains(diffFiles[k].path, <<"/","s","r","c","/">>)
  /\ Len(classified.components) = 1
  /\ Len(classified.functions) = 1

\* the component rule as the claim words it
componentByRule(filePath) ==
  \/ \E fragment \in { <<"/","c","o","m","p","o","n","e","n","t","s","/">>, <<"/","w","i","d","g","e","t","s","/">>,
                      <<"/","u","i","/">>, <<"/","c","o","m","p","o","n","e","n","t","/">> } :
       contains(filePath, fragment)
  \/ /\ extname(filePath) \in { <<".","v","u","e">>, <<".","j","s","x">>, <<".","t","s","x">>, <<".","s","v","e","l","t","e">> }
     /\ basename(filePath)[1] \in UpperSet

\* C18: a file that is not a stylesheet is among the components exactly when
\* its path contains a component fragment or it has a component extension
\* and a basename starting with an upper-case letter
C18_ComponentRule ==
  pc = "Classified" =>
    \A k \in 1..Len(diffFiles) :
      ~hasStyleEnding(diffFiles[k].path) =>
        (diffFiles[k].path \in pathsOf(classified.components)
           <=> componentByRule(diffFiles[k].path))

\* the category the claim gives a path
claimedCategory(filePath) ==
  IF contains(filePath, <<"/","p","a","g","e","s","/">>) \/ contains(filePath, <<"/","v","i","e","w","s","/">>)
  THEN <<"p","a","g","e","s">>
  ELSE IF contains(filePath, <<"/","a","p","i","/">>) \/ contains(filePath, <<"/","s","e","r","v","i","c","e","s","/">>)
  THEN <<"a","p","i">>
  ELSE IF contains(filePath, <<"/","u","t","i","l","s","/">>) \/ contains(filePath, <<"/","h","e","l","p","e","r","s","/">>)
  THEN <<"u","t","i","l","s">>
  ELSE IF contains(filePath, <<"/","s","t","o","r","e","/">>) \/ contains(filePath, <<"/","s","t","o","r","e","s","/">>)
  THEN <<"s","t","o","r","e">>
  ELSE IF contains(filePath, <<"/","f","e","a","t","u","r","e","s","/">>) \/ contains(filePath, <<"/","m","o","d","u","l","e","s","/">>)
  THEN <<"f","e","a","t","u","r","e","s">>
  ELSE <<"o","t","h","e","r">>

\* C19: the category of every function suggestion is that of the first rule
\* its path matches, in the order pages, api, utils, store, features, and
\* other when it matches none
C19_CategoryFirstMatch ==
  pc = "Classified" =>
    \A k \in 1..Len(classified.functions) :
      classified.functions[k].category = claimedCategory(classified.functions[k].path)

C19_Witness ==
  /\ pc = "Classified"
  /\ \E j \in 1..Len(classified.functions), k \in 1..Len(classified.functions) :
       /\ contains(classified.functions[j].path, <<"/","a","p","i","/">>)
       /\ contains(classified.functions[j].path, <<"/","p","a","g","e","s","/">>)
       /\ classified.functions[j].category = <<"p","a","g","e","s">>
       /\ contains(classified.functions[k].path, <<"/","l","i","b","/">>)
       /\ classified.functions[k].category = <<"o","t","h","e","r">>

\* 0 for an Added suggestion, 1 for any other
statusRank(suggestion) == IF suggestion.status = "A" THEN 0 ELSE 1

\* a comes before b by status rank, then by name
rankThenName(a, b) ==
  \/ statusRank(a) < statusRank(b)
  \/ statusRank(a) = statusRank(b) /\ localeCompare(a.name, b.name) <= 0

\* C20: for every order of the input the components are sorted by status
\* rank, then by name; the functions by category, then status rank, then name
C20_SortedByRankThenName ==
  pc = "Classified" =>
    /\ \A k \in 1..(Len(classified.components) - 1) :
         rankThenName(classified.components[k], classified.components[k + 1])
    /\ \A k \in 1..(Len(classified.functions) - 1) :
         LET a == classified.functions[k]
             b == classified.functions[k + 1]
         IN \/ localeCompare(a.category, b.category) < 0
            \/ a.category = b.category /\ rankThenName(a, b)

\* the directory segments of a path
directoriesOf(filePath) ==
  LET parts == splitSlash(filePath) IN SubSeq(parts, 1, Len(parts) - 1)

\* two index files with the same extension whose directories are different
\* children of one directory
siblingIndexFiles(p, q) ==
  LET dp == directoriesOf(p)
      dq == directoriesOf(q)
  IN /\ toLowerCase(suggestionName(p)) = IndexName
     /\ toLowerCase(suggestionName(q)) = IndexName
     /\ extname(p) = extname(q)
     /\ Len(dp) = Len(dq)
     /\ Len(dp) >= 1
     /\ SubSeq(dp, 1, Len(dp) - 1) = SubSeq(dq, 1, Len(dq) - 1)
     /\ dp[Len(dp)] # dq[Len(dq)]

\* C21: two index files with the same extension in different sibling
\* directories get different names, among the components and among the
\* functions
C21_SiblingIndexNamesDiffer ==
  pc = "Classified" =>
    \A list \in {classified.components, classified.functions} :
      \A j \in 1..Len(list), k \in 1..Len(list) :
        siblingIndexFiles(list[j].path, list[k].path) => list[j].name # list[k].name

(***************************************************************************)
(* Properties of generateSmartUserChoices (checked under SpecChoices)      *)
(***************************************************************************)
\* the recency list the call reads in the file it was made on, empty when
\* the file is absent, unparsable or expired
recencyListOf(file, type, t) ==
  LET field == IF type = "checkUsers" THEN "recentCheckUsers" ELSE "recentParticipants"
  IN IF readable(file, t) /\ field \in DOMAIN file.data THEN file.data[field] ELSE <<>>

\* the entries of a choice list that stand for a user
userEntries(choices) == {k \in 1..Len(choices) : choices[k] # Separator}

\* C22: the choices hold every user exactly once, the users of the recency
\* list first, in the order of that list, the first flagged most recent and
\* the others frequent, then the other users by display name, with a
\* separator between the two groups exactly when both are non-empty
C22_RankedChoices ==
  (pc = "Choices" /\ call.op = "generateSmartUserChoices") =>
    /\ ~call.raised
    /\ LET choices == call.returned
           recentIds == recencyListOf(fileBefore, call.type, now)
           recent == {k \in userEntries(choices) : includes(recentIds, choices[k].value)}
           others == userEntries(choices) \ recent
       IN /\ \A j \in 1..Len(call.users) :
               Cardinality({k \in userEntries(choices) :
                              choices[k].value = call.users[j].id}) = 1
          /\ Cardinality(userEntries(choices)) = Len(call.users)
          /\ \A j \in recent, k \in others : j < k
          /\ \A j \in recent, k \in recent :
               j < k => indexOf(recentIds, choices[j].value)
                          < indexOf(recentIds, choices[k].value)
          /\ \A k \in recent :
               endsWith(choices[k].name,
                        IF k = 1 THEN MostRecentLabel ELSE FrequentLabel)
          /\ \A k \in others :
               /\ ~endsWith(choices[k].name, MostRecentLabel)
               /\ ~endsWith(choices[k].name, FrequentLabel)
          /\ \A j \in others, k \in others :
               j < k => localeCompare(choices[j].short, choices[k].short) <= 0
          /\ (recent # {} /\ others # {}) =>
               /\ Len(choices) = Len(call.users) + 1
               /\ choices[Cardinality(recent) + 1] = Separator
          /\ (recent = {} \/ others = {}) => Len(choices) = Len(call.users)

(***************************************************************************)
(* Properties of the usage calls on any id list (checked under SpecStore)  *)
(***************************************************************************)
\* no id twice in the list
noDuplicates(list) ==
  \A j \in 1..Len(list), k \in 1..Len(list) : j # k => list[j] # list[k]

\* C23: after any usage call, whatever its id list (an id repeated, more
\* than 20 ids), each recency list of the file holds no id twice and at most
\* 20 ids, and the ids of the call stand at its front
C23_RecencyListsDistinct ==
  (pc = "Store" /\ cacheFile.exists /\ cacheFile.parsable) =>
    /\ "recentParticipants" \in DOMAIN cacheFile.data =>
         /\ noDuplicates(cacheFile.data.recentParticipants)
         /\ Len(cacheFile.data.recentParticipants) <= RECENT_LIMIT
    /\ "recentCheckUsers" \in DOMAIN cacheFile.data =>
         /\ noDuplicates(cacheFile.data.recentCheckUsers)
         /\ Len(cacheFile.data.recentCheckUsers) <= RECENT_LIMIT
    /\ (call.op = "updateParticipantUsage" /\ ~call.raised /\ writable) =>
         cacheFile.data.recentParticipants[1] = call.userIds[1]
    /\ (call.op = "updateCheckUserUsage" /\ ~call.raised /\ writable) =>
         cacheFile.data.recentCheckUsers[1] = call.userIds[1]

(***************************************************************************)
(* Ties between recommended reviewers (checked under SpecStore)            *)
(***************************************************************************)
\* the preference calls that wrote, for one extension
recordingsOf(extension) ==
  SelectSeq(recorded.preferences, LAMBDA rec : rec.extension = extension)

\* every weight the file holds for the extension was added by the calls made
builtByCalls(file, extension) ==
  /\ readable(file, now)
  /\ \A r \in Users :
       storedWeight(file, extension, r, now)
         = Len(SelectSeq(recordingsOf(extension), LAMBDA rec : rec.reviewerId = r))

\* the position of the first recording of a reviewer for the extension
firstRecording(extension, r) ==
  SetMin({k \in 1..Len(recordingsOf(extension)) : recordingsOf(extension)[k].reviewerId = r})

\* the available reviewers that share the weight of the one returned
tiedWith(file, extension, availableUsers, returned) ==
  {r \in availableIds(availableUsers) :
     storedWeight(file, extension, r, now) = storedWeight(file, extension, returned, now)}

\* C24 as claimed: among the available reviewers of highest weight the one
\* recorded first for the extension is returned
C24_FirstRecordedWins ==
  (pc = "Store" /\ call.op = "getRecommendedReviewerForFile" /\ call.returned # Null
     /\ builtByCalls(cacheFile, lowerExtension(call.filePath))) =>
    \A r \in tiedWith(cacheFile, lowerExtension(call.filePath), call.availableUsers,
                      call.returned) :
      firstRecording(lowerExtension(call.filePath), call.returned)
        <= firstRecording(lowerExtension(call.filePath), r)

\* C24, corrected: among the available reviewers of highest weight the one
\* with the smallest id is returned, whatever the order of recording
C24_SmallestIdWins ==
  (pc = "Store" /\ call.op = "getRecommendedReviewerForFile" /\ call.returned # Null) =>
    \A r \in tiedWith(cacheFile, lowerExtension(call.filePath), call.availableUsers,
                      call.returned) :
      call.returned <= r

C24_Witness ==
  /\ pc = "Store"
  /\ call.op = "getRecommendedReviewerForFile"
  /\ call.seq = 3
  /\ builtByCalls(cacheFile, lowerExtension(call.filePath))
  /\ Len(recordingsOf(lowerExtension(call.filePath))) = 2
  /\ recordingsOf(lowerExtension(call.filePath))[1].reviewerId = 1
  /\ recordingsOf(lowerExtension(call.filePath))[2].reviewerId = 0
  /\ call.returned = 0
  /\ 1 \in availableIds(call.availableUsers)

(***************************************************************************)
(* The frame of updateFileReviewerPreference (checked under SpecStore)     *)
(***************************************************************************)
\* the extensions and reviewers that have a weight in one of two files
weightKeys(before, after) ==
  LET extensionsOfFile(file) == IF readable(file, now)
                                THEN DOMAIN file.data.fileReviewerPreferences ELSE {}
      extensions == extensionsOfFile(before) \cup extensionsOfFile(after)
  IN {<<e, r>> : e \in extensions, r \in Users}

\* the recency list a load of the file gives, <<Undefined>> when the
\* document lacks it
recencyField(file, field) ==
  IF field \in DOMAIN loadCache(file, now) THEN loadCache(file, now)[field]
  ELSE <<Undefined>>

\* C25: on a store that is not expired a preference call that writes adds
\* exactly 1 to the weight of the lower-cased extension and the reviewer and
\* leaves every other weight and both recency lists as they were; for a path
\* without extension the file stays as it was, absent when it was absent
C25_PreferenceFrame ==
  (pc = "Store" /\ call.op = "updateFileReviewerPreference" /\ writable
     /\ ~stale(fileBefore, now)) =>
    LET extension == lowerExtension(call.filePath)
    IN IF extension = <<>> THEN cacheFile = fileBefore
       ELSE /\ \A key \in weightKeys(fileBefore, cacheFile) \cup {<<extension, call.reviewerId>>} :
                 storedWeight(cacheFile, key[1], key[2], now)
                   = storedWeight(fileBefore, key[1], key[2], now)
                       + (IF key = <<extension, call.reviewerId>> THEN 1 ELSE 0)
            /\ recencyField(cacheFile, "recentParticipants")
                 = recencyField(fileBefore, "recentParticipants")
            /\ recencyField(cacheFile, "recentCheckUsers")
                 = recencyField(fileBefore, "recentCheckUsers")

C25_Witness ==
  /\ pc = "Store"
  /\ call.op = "updateFileReviewerPreference"
  /\ call.seq = 2
  /\ writable
  /\ call.filePath = <<"b",".","J","S">>
  /\ call.reviewerId = 1
  /\ readable(fileBefore, now)
  /\ storedWeight(fileBefore, <<".","j","s">>, 0, now) = 1
  /\ storedWeight(fileBefore, <<".","t","s">>, 1, now) = 2
  /\ storedWeight(cacheFile, <<".","j","s">>, 1, now) = 2
  /\ recencyField(cacheFile, "recentParticipants") = <<1, 0>>

(***************************************************************************)
(* One suggestion per file and list (checked under SpecClassify)           *)
(***************************************************************************)
\* the suggestions of a list made for a changed file
suggestionsFor(list, file) == {k \in 1..Len(list) : list[k].path = file.path}

\* every suggestion of the list carries the path and status of a changed
\* file, and no changed file has two
oneSuggestionPerFile(list) ==
  /\ Len(list) <= Len(diffFiles)
  /\ \A k \in 1..Len(list) :
       \E j \in 1..Len(diffFiles) : /\ diffFiles[j].path = list[k].path
                                    /\ diffFiles[j].status = list[k].status
  /\ \A j \in 1..Len(diffFiles) : Cardinality(suggestionsFor(list, diffFiles[j])) <= 1

\* C26: every changed file has at most one component suggestion and at most
\* one function suggestion, each with its path and status; whether it has
\* the one does not depend on whether it has the other, and neither list is
\* longer than the input
C26_OneSuggestionPerFile ==
  pc = "Classified" =>
    /\ oneSuggestionPerFile(classified.components)
    /\ oneSuggestionPerFile(classified.functions)
    /\ \A j \in 1..Len(diffFiles) :
         /\ suggestionsFor(classified.components, diffFiles[j]) # {}
              <=> isComponentFile(diffFiles[j].path)
         /\ suggestionsFor(classified.functions, diffFiles[j]) # {}
              <=> isFunctionFile(diffFiles[j].path)

\* one file in both lists and one in none
C26_Witness ==
  /\ pc = "Classified"
  /\ Len(diffFiles) = 2
  /\ Len(classified.components) = 1
  /\ Len(classified.functions) = 1
  /\ classified.components[1].path = classified.functions[1].path
  /\ classified.components[1].path = diffFiles[2].path
  /\ classified.components[1].status = "D"
  /\ diffFiles[1].status = "A"

(***************************************************************************)
(* Termination of the batch loop (checked under SpecLive)                  *)
(***************************************************************************)
\* one module per selected file, in the order of the selection
modulePerFile ==
  /\ Len(modules) = Len(selectedFiles)
  /\ \A k \in 1..Len(modules) : modules[k].relativePath = selectedFiles[k].relativePath

\* no step is taken once the loop has been left, and a retry leads back to
\* the head of the loop and counts one more round
loopStep ==
  /\ ~terminated
  /\ pc = "Retry" => (pc' = "ModeSelection" /\ retries' = retries + 1)

\* C27: the loop stops only in Confirmed (one module per selected file), in
\* Cancelled (no module) or after the individual mode; every retry starts a
\* new round, which reaches the preview or the individual mode again; and
\* with an operator who does not retry for ever the loop terminates (it
\* reaches one of these three states, where no further step is taken)
C27_EndsConfirmedOrCancelled ==
  /\ [](pc \in {"ModeSelection", "Preview", "Retry"} => ENABLED Next)
  /\ [](pc \in {"StrategyConfiguration", "Adjust", "Individual"} =>
         choiceValues(userChoices) # {})
  /\ [](pc = "Execution" => Len(results) <= Len(selectedFiles))
  /\ [](pc \in {"Confirmed", "IndividualDone"} => modulePerFile)
  /\ [](pc = "Cancelled" => modules = <<>>)
  /\ [][loopStep]_vars
  /\ (pc = "Retry") ~> (pc \in {"Preview", "IndividualDone"})
  /\ <>terminated

C27_Witness ==
  /\ pc = "Confirmed"
  /\ retries >= 1
  /\ Len(selectedFiles) >= 2
  /\ modulePerFile

(***************************************************************************)
(* Execution over configured options (checked under Spec)                  *)
(***************************************************************************)
\* the extension key as the claim words it: the lower-cased extension, and
\* '.other' for a file without extension
claimedExtensionKey(filePath) ==
  IF lowerExtension(filePath) = <<>> THEN OtherExt ELSE lowerExtension(filePath)

\* C28: after a configuration over the selected files the execution over the
\* same files takes no fallback: the key of every file is a key of the
\* mapping of the mode, and the file gets the reviewer chosen for that key
C28_NoFallbackAfterConfiguration ==
  pc = "Preview" =>
    /\ batchOptions.mode = "byType" =>
         \A k \in 1..Len(selectedFiles) :
           LET key == claimedExtensionKey(selectedFiles[k].relativePath)
           IN /\ key \in DOMAIN batchOptions.typeBasedMapping
              /\ assignmentResults[k].reviewerId = batchOptions.typeBasedMapping[key]
    /\ batchOptions.mode = "byDirectory" =>
         \A k \in 1..Len(selectedFiles) :
           LET key == directoryKey(selectedFiles[k].relativePath)
           IN /\ key \in DOMAIN batchOptions.directoryBasedMapping
              /\ assignmentResults[k].reviewerId = batchOptions.directoryBasedMapping[key]

(***************************************************************************)
(* Weights over the rounds of the batch loop (checked under Spec)          *)
(***************************************************************************)
RECURSIVE countOfRounds(_, _, _)
\* the results of all the rounds with the given extension and reviewer
countOfRounds(rounds, extension, reviewerId) ==
  IF rounds = <<>> THEN 0
  ELSE countOf(Head(rounds), extension, reviewerId)
         + countOfRounds(Tail(rounds), extension, reviewerId)

RECURSIVE sumOver(_, _)
\* the sum of f over the finite set S
sumOver(f, S) ==
  IF S = {} THEN 0
  ELSE LET x == CHOOSE y \in S : TRUE IN f[x] + sumOver(f, S \ {x})

\* the selected files with the given lower-cased extension
filesWithExtension(extension) ==
  Cardinality({k \in 1..Len(selectedFiles) :
                 lowerExtension(selectedFiles[k].relativePath) = extension})

\* the extensions of the selected files and of the store, then and now
loopExtensions ==
  ({lowerExtension(selectedFiles[k].relativePath) : k \in 1..Len(selectedFiles)} \ {<<>>})
    \cup (IF readable(loopLog.fileAtStart, now)
          THEN DOMAIN loopLog.fileAtStart.data.fileReviewerPreferences ELSE {})
    \cup (IF readable(cacheFile, now)
          THEN DOMAIN cacheFile.data.fileReviewerPreferences ELSE {})

\* what the store has gained for an extension and a reviewer since the loop
\* was entered
gained(extension, reviewerId) ==
  storedWeight(cacheFile, extension, reviewerId, now)
    - storedWeight(loopLog.fileAtStart, extension, reviewerId, now)

\* the rounds executed so far are all in the store: per extension and
\* reviewer the results of every round, per extension one per file and round
roundsKept ==
  LET k == Len(loopLog.rounds)
  IN /\ k = retries + (IF pc \in {"Preview", "Retry", "Adjust", "Cancelled"} THEN 1 ELSE 0)
     /\ writable =>
          \A e \in loopExtensions :
            /\ \A r \in Users : gained(e, r) = countOfRounds(loopLog.rounds, e, r)
            /\ sumOver([r \in Users |-> gained(e, r)], Users) = k * filesWithExtension(e)
     /\ ~writable => cacheFile = loopLog.fileAtStart

\* no step lowers a weight of the store, and the steps of the preview, of a
\* retry and of a cancellation leave the store as it is
keepStep ==
  /\ \A e \in loopExtensions : \A r \in Users :
       storedWeight(cacheFile', e, r, now) >= storedWeight(cacheFile, e, r, now)
  /\ pc \in {"Preview", "Retry", "Cancelled"} => cacheFile' = cacheFile

\* C29: the weights recorded by an execution are never rolled back: on a
\* writable store, whenever no execution is under way and nothing has been
\* adjusted, the store has gained for every extension and reviewer the
\* results of every executed round, which makes k per file of the extension
\* after k executions, also after Retry and in Cancelled; an adjustment only
\* adds to that; on a store that cannot be written nothing is recorded at all
C29_WeightsNeverRolledBack ==
  /\ [](pc \notin {"Execution", "Confirmed"} => roundsKept)
  /\ [](pc = "Confirmed" /\ writable =>
          \A e \in loopExtensions : \A r \in Users :
            gained(e, r) >= countOfRounds(loopLog.rounds, e, r))
  /\ [][keepStep]_vars

C29_Witness ==
  /\ pc = "Cancelled"
  /\ writable
  /\ Len(loopLog.rounds) = 2
  /\ Len(selectedFiles) = 2
  /\ \E e \in loopExtensions :
       /\ filesWithExtension(e) = 2
       /\ \E r1, r2 \in Users :
            /\ r1 # r2
            /\ countOf(loopLog.rounds[1], e, r1) = 2
            /\ countOf(loopLog.rounds[2], e, r2) = 2
            /\ gained(e, r1) = 2 /\ gained(e, r2) = 2

(***************************************************************************)
(* The attempts of one request (checked under SpecHttpFair)                *)
(***************************************************************************)
\* an error after which the claim allows a further attempt
acceptedError(error) ==
  \/ error.name = "AbortError"
  \/ \E word \in {<<"f","e","t","c","h">>,
                  <<"n","e","t","w","o","r","k">>,
                  <<"t","i","m","e","o","u","t">>} :
       \E i \in 1..Len(error.message) :
         \E j \in i..Len(error.message) : SubSeq(error.message, i, j) = word

\* the request has been entered
requested == pc \in {"Fetch", "Delay", "Responded", "Raised"}

ended == pc \in {"Responded", "Raised"}

\* the attempts made so far are within the retries, and each but the last
\* one ended in an error that allows a further attempt
attemptsBounded ==
  /\ Len(http.log) <= http.retryCount + 1
  /\ http.retriesLeft = http.retryCount - Len(http.log) + (IF pc = "Fetch" THEN 0 ELSE 1)
  /\ \A k \in 1..Len(http.log) :
       (k < Len(http.log) \/ pc = "Delay") =>
         /\ http.log[k].kind = "error"
         /\ acceptedError(http.log[k].error)
         /\ k <= http.retryCount

\* the request ends with what its last attempt came to
endsWithLast ==
  /\ http.log # <<>>
  /\ http.outcome = http.log[Len(http.log)]
  /\ http.outcome.kind = (IF pc = "Raised" THEN "error" ELSE "data")
  /\ (pc = "Raised" /\ acceptedError(http.outcome.error)) =>
       Len(http.log) = http.retryCount + 1

\* C30: one request makes at most retryCount + 1 attempts; a further attempt
\* follows only an error with the name AbortError or with fetch, network or
\* timeout in its message, while retries remain; an error of the first
\* attempt without any of these (an HTTP status that is not ok, a business
\* error) is raised after that one attempt; and every request ends, with a
\* response or with a raised error that is the one of its last attempt
C30_BoundedAttempts ==
  /\ [](requested => attemptsBounded)
  /\ [](ended => endsWithLast)
  /\ []((requested /\ http.log # <<>> /\ http.log[1].kind = "error"
           /\ ~acceptedError(http.log[1].error)) =>
          (pc = "Raised" /\ Len(http.log) = 1))
  /\ <>ended

C30_Witness ==
  /\ pc = "Raised"
  /\ http.retryCount = 2
  /\ Len(http.log) = 3
  /\ http.log[1].error = FetchFailed
  /\ http.log[2].error.name = "Error"
  /\ http.log[3].error = TimeoutError

====
